---------------------------- MODULE Spec2Model ----------------------------
(***************************************************************************)
(* A model of mdubaid-in/stock-api: the sliding-window RateLimiter         *)
(* (classes/TwelveDataManager.py) and the run loops of the polling engine  *)
(* (TwelveDataManager) and of the streaming engine (TwelveDataWebSocket).  *)
(*                                                                         *)
(* Time is in whole seconds.  A sleep of d seconds is d one-second steps   *)
(* of the sleeping worker; every other statement takes no time.            *)
(***************************************************************************)
EXTENDS Integers, Sequences, FiniteSets, TLC

(***************************************************************************)
(* Bounds of the model.                                                    *)
(***************************************************************************)
\* Number of threads that call RateLimiter.acquire() concurrently.
NThreads == 2
\* The quota per_minute the RateLimiter is constructed with.
Quota == 2
\* The clock of the rate limiter's specification stops here.
MaxTime == 62
\* The longest list save_stock_data is called with.
MaxBatch == 2
\* The largest symbol list the engines are constructed with.
MaxSymbols == 11
\* The largest time-until-open, in seconds, the calendar reports to the
\* streaming engine's closed-market wait.
MaxWaitTime == 12
\* The streaming engine's connections list is followed up to this length.
MaxConnObjects == 4
\* The history counters saturate here.
CounterCap == 3

(***************************************************************************)
(* Program constants.                                                      *)
(***************************************************************************)
\* The width of the rate limiter's window, in seconds (60.0 in acquire).
Window == 60
POLLING_INTERVAL == 60
MAX_RECONNECT_ATTEMPTS == 5
INITIAL_RECONNECT_DELAY == 5
MAX_RECONNECT_DELAY == 60
\* The cooldown after MAX_RECONNECT_ATTEMPTS, range(60) / time.sleep(60).
COOLDOWN == 60
MAX_WEBSOCKET_CONNECTIONS == 8
MAX_SYMBOLS_PER_CONNECTION == 10
\* The chunk of the streaming engine's closed-market wait, min(10, wait_time).
WAIT_CHUNK == 10

VARIABLES
    \* ---- RateLimiter (classes/TwelveDataManager.py) ----
    clock,          \* time.time(), in seconds
    minute_calls,   \* RateLimiter.minute_calls: the deque of recorded timestamps
    lock,           \* RateLimiter.lock: the thread holding it, or NoThread
    rlpc,           \* per thread: "idle" or "sleeping" (inside time.sleep of acquire)
    wake,           \* per thread: the instant its time.sleep(sleep_time) ends
    admitted,       \* history: the admissions of the trailing window (clock-Window, clock]
    lastAdmit,      \* history: the most recent admission
    \* ---- the engines (TwelveDataManager, TwelveDataWebSocket) and main.py ----
    mode,           \* main.USE_WEBSOCKET: "REST" or "WS"
    nSymbols,       \* len(self.symbols)
    shutdown,       \* shutdown_event.is_set()
    market,         \* what the calendar answers now: "open", "holiday", "closed", "raises"
    pc,             \* where the worker executing run() is
    hrReturn,       \* where handleReconnect returns to
    hrKind,         \* the wait handleReconnect is in: "backoff" or "cooldown"
    waitLeft,       \* iterations left of handleReconnect's for loop
    time_waited,    \* run(): time_waited of the inter-cycle wait
    reconnect_attempts,
    is_running,
    should_continue,
    connections,    \* TwelveDataWebSocket.connections
    connIdx,        \* connect(): the list iterator's index
    all_connected,  \* connect(): all_connected
    wait_time,      \* run(): wait_time of the closed-market wait
    closedIter,     \* run(): the value of range(0, wait_time, 10) reached
    sleepLeft,      \* seconds left of a time.sleep longer than one second
    mainStops,      \* main(): the stop() calls made after the shutdown
    lastCheck,      \* history: the worker's latest isMarketOpen(): "none", "open", "closed", "raised"
    lastCall,       \* history: the latest outbound call to the provider
    lastCycle,      \* history: what the latest fetchData call did
    cyclesSinceStop,    \* history: fetchData calls begun while is_running is false
    sleptSinceCheck,    \* history: seconds slept with shutdown set since the flag was last tested
    sleptAfterShutdown, \* history: seconds the worker has slept since shutdown was set
    inBackoffAtShutdown, \* history: shutdown was set inside handleReconnect's backoff wait
    leftAtShutdown, \* history: iterations the backoff wait had left then
    lastWait,       \* history: how the latest wait of handleReconnect ended:
                    \* "none", "backoff", "cooldown" (waited in full), "interrupted"
    partialLeft,    \* history: the connections left connected by the latest connect() that returned False from its loop
    stoppedInConnect, \* history: a stop() from another thread ran inside the current connect()
    hpc,            \* where the worker executing healthCheck is; "off" when main() has not started it
    healthStops,    \* history: the stop() calls healthCheck has made
    last_update_time, \* TwelveDataManager.last_update_time: "None", or the statement that took the time it holds
    mpc,            \* where main() is after starting the data thread; "off" when main() is not followed
    joinLeft,       \* main(): the seconds left of data_thread.join(timeout=3)
    instruments,    \* InstrumentManager.instruments: the list of Instrument objects (followed in SpecInstruments)
    added,          \* history: the (symbol, exchange) of every instrument added, in order
    stock_data,     \* processQuoteData: the cycle batch it is given, company_id -> record
    lastQuote,      \* history: the quote processQuoteData was last called with, and whether the call raised
    \* ---- the "stocks" collection and save_stock_data (db/stocks.py) ----
    store,          \* the collection: per _id, the document stored or none
    lastSave,       \* history: what the latest save_stock_data call was given and returned
    afterFirst,     \* history: the collection after the first of two calls with one payload
    lastEvent,      \* history: the latest event WebSocketConnection.onEvent was given,
                    \* and the calls to the database it made for it
    \* ---- the calendar (utils/marketHours.py) ----
    calNow,         \* getMarketCurrentTime(): day of the month, its length, weekday, second of the day
    calExt,         \* what the provider's market_state answers: "open", "closed", "error", "none"
    calResult       \* what getMarketState() returns, or that it raised, at calNow and calExt

rlVars == <<clock, minute_calls, lock, rlpc, wake, admitted, lastAdmit>>

engVars == <<mode, nSymbols, shutdown, market, pc, hrReturn, hrKind, waitLeft,
             time_waited, reconnect_attempts, is_running, should_continue,
             connections, connIdx, all_connected, wait_time, closedIter,
             sleepLeft, mainStops, lastCheck, lastCall, lastCycle,
             cyclesSinceStop, sleptSinceCheck, sleptAfterShutdown,
             inBackoffAtShutdown, leftAtShutdown, lastWait,
             partialLeft,
             stoppedInConnect,
             hpc,
             healthStops,
             last_update_time,
             mpc,
             joinLeft,
             instruments,
             added,
             stock_data,
             lastQuote>>

stVars == <<store, lastSave, afterFirst, lastEvent>>

calVars == <<calNow, calExt, calResult>>

vars == <<rlVars, engVars, stVars, calVars>>

Threads == 1..NThreads
NoThread == 0

(***************************************************************************)
(* RateLimiter.acquire                                                     *)
(***************************************************************************)
\* The clean-up loop: pop from the left while the head is 60 s old or older.
RECURSIVE Trim(_, _)
Trim(q, now) ==
    IF q # <<>> /\ now - Head(q) >= Window THEN Trim(Tail(q), now) ELSE q

\* The test that lets one call too many through.
AtLimitOffByOne(q) == Len(q) > Quota

\* "if len(self.minute_calls) >= self.per_minute"
AtLimit(q) == Len(q) >= Quota

\* The sleep measured from the newest recorded call.
SleepTimeFromNewest(q, now) == Window - (now - q[Len(q)])

\* "sleep_time = 60.0 - (now - self.minute_calls[0])"
SleepTime(q, now) == Window - (now - Head(q))

\* The admissions that lie in the trailing window ending at instant t.
InWindow(h, t) == SelectSeq(h, LAMBDA ts : t - ts < Window)

\* "self.minute_calls.append(now)", with the history of admissions.
Record(q, now, slept) ==
    /\ minute_calls' = Append(q, now)
    /\ admitted' = Append(InWindow(admitted, now), now)
    /\ lastAdmit' = [at |-> now, slept |-> slept]

\* acquire() up to its append or its time.sleep: the thread takes the lock,
\* reads the clock, trims, and either records the call and leaves, or goes
\* to sleep inside the "with self.lock" block.
AcquireEnter(t) ==
    /\ rlpc[t] = "idle"
    /\ lock = NoThread
    /\ LET now == clock
           q == Trim(minute_calls, now)
       IN IF AtLimit(q) /\ SleepTime(q, now) > 0
          THEN /\ minute_calls' = q
               /\ lock' = t
               /\ rlpc' = [rlpc EXCEPT ![t] = "sleeping"]
               /\ wake' = [wake EXCEPT ![t] = now + SleepTime(q, now)]
               /\ UNCHANGED <<admitted, lastAdmit>>
          ELSE /\ Record(q, now, FALSE)
               /\ UNCHANGED <<lock, rlpc, wake>>
    /\ UNCHANGED clock
    /\ UNCHANGED engVars
    /\ UNCHANGED stVars
    /\ UNCHANGED calVars

\* The end of time.sleep(sleep_time): the clock is read again, the deque is
\* trimmed again, the call is recorded and the lock is released.
AcquireWake(t) ==
    /\ rlpc[t] = "sleeping"
    /\ lock = t
    /\ clock >= wake[t]
    /\ LET now == clock
           q == Trim(minute_calls, now)
       IN Record(q, now, TRUE)
    /\ lock' = NoThread
    /\ rlpc' = [rlpc EXCEPT ![t] = "idle"]
    /\ wake' = [wake EXCEPT ![t] = 0]
    /\ UNCHANGED clock
    /\ UNCHANGED engVars
    /\ UNCHANGED stVars
    /\ UNCHANGED calVars

\* One second passes.
Tick ==
    /\ clock < MaxTime
    /\ clock' = clock + 1
    /\ admitted' = InWindow(admitted, clock + 1)
    /\ UNCHANGED <<minute_calls, lock, rlpc, wake, lastAdmit>>
    /\ UNCHANGED engVars
    /\ UNCHANGED stVars
    /\ UNCHANGED calVars

(***************************************************************************)
(* The calendar, as the engines see it (utils/marketHours.py).             *)
(*   "open"    local time is inside the open window and the external       *)
(*             signal does not report closed: state OPEN                   *)
(*   "holiday" local time is inside the open window and the external       *)
(*             signal reports closed: state HOLIDAY, time_until_open 0     *)
(*   "closed"  a closed weekday or outside the window, and                 *)
(*             _getNextMarketOpen succeeds                                 *)
(*   "raises"  a closed weekday or past the close, on a day of the month   *)
(*             for which _getNextMarketOpen's replace(day=day + 1) raises  *)
(*             ValueError                                                  *)
(***************************************************************************)
MarketStates == {"open", "holiday", "closed", "raises"}

\* isMarketOpen(): state == MarketState.OPEN
IsOpen(m) == m = "open"

\* getMarketState raises out of _getNextMarketOpen.
Raises(m) == m = "raises"

\* getMarketState queries the provider (check_market_status) exactly when
\* local time is inside the open window.
QueriesProvider(m) == m \in {"open", "holiday"}

\* check_market_status: client.custom_endpoint(name="market_state").  No
\* RateLimiter.acquire() precedes the request.
MarketStatusCall == [kind |-> "market_state", admitted |-> FALSE]

\* What one call of getMarketState leaves behind.
ProviderQueried == lastCall' = IF QueriesProvider(market) THEN MarketStatusCall ELSE lastCall

\* What one call of isMarketOpen() by the worker leaves behind.
MarketChecked ==
    /\ lastCheck' = IF IsOpen(market) THEN "open"
                    ELSE IF Raises(market) THEN "raised" ELSE "closed"
    /\ ProviderQueried

Min(a, b) == IF a <= b THEN a ELSE b

Bump(c) == Min(c + 1, CounterCap)

\* A second of sleep of the worker: it counts when shutdown is already set.
SleptOneSecond ==
    /\ sleptSinceCheck' = IF shutdown THEN Bump(sleptSinceCheck) ELSE 0
    /\ sleptAfterShutdown' = IF shutdown THEN Bump(sleptAfterShutdown) ELSE 0

\* The worker has evaluated shutdown_event.is_set().
FlagTested == sleptSinceCheck' = 0

RECURSIVE Pow2(_)
Pow2(n) == IF n <= 0 THEN 1 ELSE 2 * Pow2(n - 1)

\* The delay without its cap.
DelayUncapped(attempts) ==
    INITIAL_RECONNECT_DELAY * Pow2(attempts - 1)

\* "delay = min(INITIAL_RECONNECT_DELAY * (2 ** (attempts - 1)), MAX_RECONNECT_DELAY)"
Delay(attempts) ==
    Min(INITIAL_RECONNECT_DELAY * Pow2(attempts - 1), MAX_RECONNECT_DELAY)

(***************************************************************************)
(* TwelveDataWebSocket.createConnections and stop                          *)
(***************************************************************************)
\* "symbols_per_connection = min(MAX_SYMBOLS_PER_CONNECTION, len(self.symbols))"
SymbolsPerConnection(n) == Min(MAX_SYMBOLS_PER_CONNECTION, n)

\* "num_connections = min(ceil(len / symbols_per_connection), MAX_WEBSOCKET_CONNECTIONS)"
NumConnections(n) ==
    Min((n + SymbolsPerConnection(n) - 1) \div SymbolsPerConnection(n),
        MAX_WEBSOCKET_CONNECTIONS)

\* The i-th WebSocketConnection created (i from 1): connection_id i, the
\* symbols lo..hi of self.symbols (self.symbols[start_idx:end_idx]).
NewConnection(n, i) ==
    [id |-> i,
     lo |-> (i - 1) * SymbolsPerConnection(n) + 1,
     hi |-> Min(i * SymbolsPerConnection(n), n),
     is_connected |-> FALSE]

\* The connections createConnections appends to self.connections.
CreatedConnections(n) == [i \in 1..NumConnections(n) |-> NewConnection(n, i)]

\* The connections of a list whose is_connected is true.
NumConnected(cs) == Cardinality({i \in 1..Len(cs) : cs[i].is_connected})

\* "for connection in self.connections: connection.is_connected = False"
AllDisconnected(cs) == [i \in 1..Len(cs) |-> [cs[i] EXCEPT !.is_connected = FALSE]]

\* A stop() that flips the flag.
StopRunningToggles(running) == ~running

\* stop(), both engines: "self.is_running = False".
StopRunning(running) == FALSE

\* TwelveDataWebSocket.stop(): every connection of the list is disconnected
\* and the list cleared; TwelveDataManager.stop() has no connections.
StopConnections(m, cs) == IF m = "WS" THEN <<>> ELSE cs

\* The worker is inside TwelveDataWebSocket.connect(), past createConnections.
InConnect == pc \in {"ws_connect_each", "ws_connect_sleep", "ws_connect_end"}

(***************************************************************************)
(* The environment: signals, the calendar, main()'s clean-up.              *)
(***************************************************************************)
\* main.signalHandler: shutdown_event.set().
Signal ==
    /\ ~shutdown
    /\ shutdown' = TRUE
    /\ sleptSinceCheck' = 0
    /\ sleptAfterShutdown' = 0
    /\ inBackoffAtShutdown' = (pc \in {"hr_check", "hr_sleep"} /\ hrKind = "backoff")
    /\ leftAtShutdown' = IF pc \in {"hr_check", "hr_sleep"} /\ hrKind = "backoff"
                         THEN waitLeft ELSE 0
    /\ UNCHANGED <<mode, nSymbols, market, pc, hrReturn, hrKind, waitLeft,
                   time_waited, reconnect_attempts, is_running, should_continue,
                   connections, connIdx, all_connected, wait_time, closedIter,
                   sleepLeft, mainStops, lastCheck, lastCall, lastCycle,
                   cyclesSinceStop, lastWait, partialLeft, stoppedInConnect, hpc,
                   healthStops, last_update_time, mpc, joinLeft, instruments,
                   added, stock_data, lastQuote>>
    /\ UNCHANGED rlVars
    /\ UNCHANGED stVars
    /\ UNCHANGED calVars

\* Time passes, or the external signal changes its answer.  A day on which
\* _getNextMarketOpen raises is left only at midnight, into a closed state.
MarketChange ==
    /\ market' \in IF market = "raises" THEN {"closed"} ELSE MarketStates \ {market}
    /\ UNCHANGED <<mode, nSymbols, shutdown, pc, hrReturn, hrKind, waitLeft,
                   time_waited, reconnect_attempts, is_running, should_continue,
                   connections, connIdx, all_connected, wait_time, closedIter,
                   sleepLeft, mainStops, lastCheck, lastCall, lastCycle,
                   cyclesSinceStop, sleptSinceCheck, sleptAfterShutdown,
                   inBackoffAtShutdown, leftAtShutdown, lastWait, partialLeft,
                   stoppedInConnect, hpc, healthStops, last_update_time, mpc,
                   joinLeft, instruments, added, stock_data, lastQuote>>
    /\ UNCHANGED rlVars
    /\ UNCHANGED stVars
    /\ UNCHANGED calVars

\* main(): after the shutdown, data_manager.stop() on the main thread, once
\* when the data thread is still alive after the join and once as clean-up.
\* TwelveDataManager.stop sets is_running; TwelveDataWebSocket.stop also
\* disconnects every connection and clears the list.
MainStop ==
    /\ shutdown
    /\ mainStops < 2
    /\ mainStops' = mainStops + 1
    /\ is_running' = StopRunning(is_running)
    /\ cyclesSinceStop' = 0
    /\ connections' = StopConnections(mode, connections)
    /\ stoppedInConnect' = (stoppedInConnect \/ InConnect)
    /\ UNCHANGED <<mode, nSymbols, shutdown, market, pc, hrReturn, hrKind,
                   waitLeft, time_waited, reconnect_attempts, should_continue,
                   connIdx, all_connected, wait_time, closedIter, sleepLeft,
                   lastCheck, lastCall, lastCycle, sleptSinceCheck,
                   sleptAfterShutdown, inBackoffAtShutdown, leftAtShutdown,
                   lastWait, partialLeft, hpc, healthStops, last_update_time,
                   mpc, joinLeft, instruments, added, stock_data, lastQuote>>
    /\ UNCHANGED rlVars
    /\ UNCHANGED stVars
    /\ UNCHANGED calVars

(***************************************************************************)
(* healthCheck(manager), the same loop in both engines, on a thread of its *)
(* own.  Its sleep is one step: nothing here reads how long it lasts.      *)
(***************************************************************************)
\* "while not manager.shutdown_event.is_set():"
HealthLoop ==
    /\ hpc = "loop"
    /\ hpc' = IF shutdown THEN "done" ELSE "sleep"
    /\ UNCHANGED <<mode, nSymbols, shutdown, market, pc, hrReturn, hrKind,
                   waitLeft, time_waited, reconnect_attempts, is_running,
                   should_continue, connections, connIdx, all_connected,
                   wait_time, closedIter, sleepLeft, mainStops, lastCheck,
                   lastCall, lastCycle, cyclesSinceStop, sleptSinceCheck,
                   sleptAfterShutdown, inBackoffAtShutdown, leftAtShutdown,
                   lastWait, partialLeft, stoppedInConnect, healthStops,
                   last_update_time, mpc, joinLeft, instruments, added,
                   stock_data, lastQuote>>
    /\ UNCHANGED rlVars
    /\ UNCHANGED stVars
    /\ UNCHANGED calVars

\* "time.sleep(HEALTH_CHECK_INTERVAL)"
HealthSleep ==
    /\ hpc = "sleep"
    /\ hpc' = "tick"
    /\ UNCHANGED <<mode, nSymbols, shutdown, market, pc, hrReturn, hrKind,
                   waitLeft, time_waited, reconnect_attempts, is_running,
                   should_continue, connections, connIdx, all_connected,
                   wait_time, closedIter, sleepLeft, mainStops, lastCheck,
                   lastCall, lastCycle, cyclesSinceStop, sleptSinceCheck,
                   sleptAfterShutdown, inBackoffAtShutdown, leftAtShutdown,
                   lastWait, partialLeft, stoppedInConnect, healthStops,
                   last_update_time, mpc, joinLeft, instruments, added,
                   stock_data, lastQuote>>
    /\ UNCHANGED rlVars
    /\ UNCHANGED stVars
    /\ UNCHANGED calVars

\* Where a tick that found no shutdown goes: out of the function with the
\* exception of isMarketOpen(), to the "break" after stop(), or around the loop.
AfterTick(m, running) ==
    IF Raises(m) THEN "raised"
    ELSE IF ~IsOpen(m) /\ running THEN "done"
    ELSE "loop"

\* One tick: "if shutdown_event.is_set(): break", then "if not isMarketOpen()
\* and manager.is_running: manager.stop(); break", then the staleness check,
\* which only logs.
HealthTick ==
    /\ hpc = "tick"
    /\ IF shutdown
       THEN /\ hpc' = "done"
            /\ UNCHANGED <<is_running, connections, cyclesSinceStop,
                           stoppedInConnect, healthStops>>
       ELSE /\ hpc' = AfterTick(market, is_running)
            /\ IF ~Raises(market) /\ ~IsOpen(market) /\ is_running
               THEN /\ is_running' = StopRunning(is_running)
                    /\ connections' = StopConnections(mode, connections)
                    /\ cyclesSinceStop' = 0
                    /\ stoppedInConnect' = (stoppedInConnect \/ InConnect)
                    /\ healthStops' = healthStops + 1
               ELSE UNCHANGED <<is_running, connections, cyclesSinceStop,
                                stoppedInConnect, healthStops>>
    /\ UNCHANGED <<mode, nSymbols, shutdown, market, pc, hrReturn, hrKind,
                   waitLeft, time_waited, reconnect_attempts, should_continue,
                   connIdx, all_connected, wait_time, closedIter, sleepLeft,
                   mainStops, lastCheck, lastCall, lastCycle, sleptSinceCheck,
                   sleptAfterShutdown, inBackoffAtShutdown, leftAtShutdown,
                   lastWait, partialLeft, last_update_time, mpc, joinLeft,
                   instruments, added, stock_data, lastQuote>>
    /\ UNCHANGED rlVars
    /\ UNCHANGED stVars
    /\ UNCHANGED calVars

(***************************************************************************)
(* run(), both engines: the outer loop, the check after the inner loop,    *)
(* handleReconnect.                                                        *)
(***************************************************************************)
\* "while not self.shutdown_event.is_set():"
RunOuter ==
    /\ pc = "outer"
    /\ pc' = IF shutdown THEN "done" ELSE IF mode = "REST" THEN "connect" ELSE "ws_market"
    /\ FlagTested
    /\ UNCHANGED <<mode, nSymbols, shutdown, market, hrReturn, hrKind, waitLeft,
                   time_waited, reconnect_attempts, is_running, should_continue,
                   connections, connIdx, all_connected, wait_time, closedIter,
                   sleepLeft, mainStops, lastCheck, lastCall, lastCycle,
                   cyclesSinceStop, sleptAfterShutdown, inBackoffAtShutdown,
                   leftAtShutdown, lastWait, partialLeft, stoppedInConnect, hpc,
                   healthStops, last_update_time, mpc, joinLeft, instruments,
                   added, stock_data, lastQuote>>
    /\ UNCHANGED rlVars
    /\ UNCHANGED stVars
    /\ UNCHANGED calVars

\* Where the "if not isMarketOpen(): break" after the inner loop leads:
\* out of run() by the exception, back to the outer loop, or out by break.
AfterPostCheck(m) == IF Raises(m) THEN "raised" ELSE IF IsOpen(m) THEN "outer" ELSE "done"

\* "if not isMarketOpen(): ... break" after the inner loop.
PostCheck ==
    /\ pc = "post_check"
    /\ MarketChecked
    /\ pc' = AfterPostCheck(market)
    /\ UNCHANGED <<mode, nSymbols, shutdown, market, hrReturn, hrKind, waitLeft,
                   time_waited, reconnect_attempts, is_running, should_continue,
                   connections, connIdx, all_connected, wait_time, closedIter,
                   sleepLeft, mainStops, lastCycle, cyclesSinceStop,
                   sleptSinceCheck, sleptAfterShutdown, inBackoffAtShutdown,
                   leftAtShutdown, lastWait, partialLeft, stoppedInConnect, hpc,
                   healthStops, last_update_time, mpc, joinLeft, instruments,
                   added, stock_data, lastQuote>>
    /\ UNCHANGED rlVars
    /\ UNCHANGED stVars
    /\ UNCHANGED calVars

\* The engine that stops retrying past the maximum.
AfterMaxAttemptsGivesUp(m) == "done"

\* Past MAX_RECONNECT_ATTEMPTS: the polling engine's checked loop of one-second
\* sleeps, the streaming engine's time.sleep(60).
AfterMaxAttempts(m) == IF m = "REST" THEN "hr_check" ELSE "ws_cooldown"

\* handleReconnect up to its wait: the shutdown test, the increment, and
\* either the cooldown (a checked loop in the polling engine, time.sleep(60)
\* in the streaming engine) or the backoff delay (after self.stop() in the
\* streaming engine).
HrEnter ==
    /\ pc = "hr_enter"
    /\ FlagTested
    /\ IF shutdown
       THEN /\ pc' = hrReturn
            /\ UNCHANGED <<reconnect_attempts, hrKind, waitLeft, sleepLeft,
                           is_running, connections>>
       ELSE /\ reconnect_attempts' = reconnect_attempts + 1
            /\ IF reconnect_attempts + 1 > MAX_RECONNECT_ATTEMPTS
               THEN /\ hrKind' = "cooldown"
                    /\ waitLeft' = IF mode = "REST" THEN COOLDOWN ELSE 0
                    /\ sleepLeft' = IF mode = "REST" THEN 0 ELSE COOLDOWN
                    /\ pc' = AfterMaxAttempts(mode)
                    /\ UNCHANGED <<is_running, connections>>
               ELSE /\ hrKind' = "backoff"
                    /\ waitLeft' = Delay(reconnect_attempts + 1)
                    /\ is_running' = IF mode = "WS" THEN StopRunning(is_running)
                                   ELSE is_running
                    /\ connections' = StopConnections(mode, connections)
                    /\ pc' = "hr_check"
                    /\ UNCHANGED sleepLeft
    /\ UNCHANGED <<mode, nSymbols, shutdown, market, hrReturn, time_waited,
                   should_continue, connIdx, all_connected, wait_time,
                   closedIter, mainStops, lastCheck, lastCall, lastCycle,
                   cyclesSinceStop, sleptAfterShutdown, inBackoffAtShutdown,
                   leftAtShutdown, lastWait, partialLeft, stoppedInConnect, hpc,
                   healthStops, last_update_time, mpc, joinLeft, instruments,
                   added, stock_data, lastQuote>>
    /\ UNCHANGED rlVars
    /\ UNCHANGED stVars
    /\ UNCHANGED calVars

\* The cooldown that leaves the counter as it is.
AfterCooldownKept(attempts) == attempts

\* "self.reconnect_attempts = 0" after the cooldown.
AfterCooldown(attempts) == 0

\* The wait that never tests the flag.
AfterHrCheckUntested(flag, ret) == "hr_sleep"

\* "if self.shutdown_event.is_set(): return", else "time.sleep(1)".
AfterHrCheck(flag, ret) == IF flag THEN ret ELSE "hr_sleep"

\* One iteration of "for _ in range(...): if self.shutdown_event.is_set():
\* return", or the end of the loop (after the cooldown: reconnect_attempts = 0).
HrCheck ==
    /\ pc = "hr_check"
    /\ IF waitLeft = 0
       THEN /\ pc' = hrReturn
            /\ reconnect_attempts' = IF hrKind = "cooldown"
                                     THEN AfterCooldown(reconnect_attempts)
                                     ELSE reconnect_attempts
            /\ hrKind' = "backoff"
            /\ lastWait' = hrKind
            /\ UNCHANGED <<sleptSinceCheck, waitLeft>>
       ELSE /\ FlagTested
            /\ pc' = AfterHrCheck(shutdown, hrReturn)
            /\ waitLeft' = IF pc' = "hr_sleep" THEN waitLeft ELSE 0
            /\ hrKind' = IF pc' = "hr_sleep" THEN hrKind ELSE "backoff"
            /\ lastWait' = IF pc' = "hr_sleep" THEN lastWait ELSE "interrupted"
            /\ UNCHANGED reconnect_attempts
    /\ UNCHANGED <<mode, nSymbols, shutdown, market, hrReturn, time_waited,
                   is_running, should_continue, connections, connIdx,
                   all_connected, wait_time, closedIter, sleepLeft, mainStops,
                   lastCheck, lastCall, lastCycle, cyclesSinceStop,
                   sleptAfterShutdown, inBackoffAtShutdown, leftAtShutdown,
                   partialLeft, stoppedInConnect, hpc, healthStops,
                   last_update_time, mpc, joinLeft, instruments, added,
                   stock_data, lastQuote>>
    /\ UNCHANGED rlVars
    /\ UNCHANGED stVars
    /\ UNCHANGED calVars

\* "time.sleep(1)" of handleReconnect's loop.
HrSleep ==
    /\ pc = "hr_sleep"
    /\ SleptOneSecond
    /\ waitLeft' = waitLeft - 1
    /\ pc' = "hr_check"
    /\ UNCHANGED <<mode, nSymbols, shutdown, market, hrReturn, hrKind,
                   time_waited, reconnect_attempts, is_running, should_continue,
                   connections, connIdx, all_connected, wait_time, closedIter,
                   sleepLeft, mainStops, lastCheck, lastCall, lastCycle,
                   cyclesSinceStop, inBackoffAtShutdown, leftAtShutdown,
                   lastWait, partialLeft, stoppedInConnect, hpc, healthStops,
                   last_update_time, mpc, joinLeft, instruments, added,
                   stock_data, lastQuote>>
    /\ UNCHANGED rlVars
    /\ UNCHANGED stVars
    /\ UNCHANGED calVars

(***************************************************************************)
(* The polling engine (classes/TwelveDataManager.py).                      *)
(***************************************************************************)
\* TwelveDataManager.connect.  getClient() returns the client main() has
\* validated and cached, so connect() fails exactly when self.symbols is
\* empty; run() then calls handleReconnect and continues the outer loop.
RestConnect ==
    /\ mode = "REST"
    /\ pc = "connect"
    /\ IF nSymbols = 0
       THEN /\ pc' = "hr_enter"
            /\ hrReturn' = "outer"
            /\ UNCHANGED <<is_running, reconnect_attempts, cyclesSinceStop,
                           last_update_time>>
       ELSE /\ is_running' = TRUE
            /\ reconnect_attempts' = 0
            /\ last_update_time' = "connect"
            /\ cyclesSinceStop' = 0
            /\ pc' = "eval_continue"
            /\ UNCHANGED hrReturn
    /\ UNCHANGED <<mode, nSymbols, shutdown, market, hrKind, waitLeft,
                   time_waited, should_continue, connections, connIdx,
                   all_connected, wait_time, closedIter, sleepLeft, mainStops,
                   lastCheck, lastCall, lastCycle, sleptSinceCheck,
                   sleptAfterShutdown, inBackoffAtShutdown, leftAtShutdown,
                   lastWait, partialLeft, stoppedInConnect, hpc, healthStops,
                   mpc, joinLeft, instruments, added, stock_data, lastQuote>>
    /\ UNCHANGED rlVars
    /\ UNCHANGED stVars
    /\ UNCHANGED calVars

\* "should_continue = (self.is_running and not self.shutdown_event.is_set())",
\* evaluated once, before the inner loop.
RestEvalContinue ==
    /\ pc = "eval_continue"
    /\ should_continue' = (is_running /\ ~shutdown)
    /\ sleptSinceCheck' = IF is_running THEN 0 ELSE sleptSinceCheck
    /\ pc' = "inner"
    /\ UNCHANGED <<mode, nSymbols, shutdown, market, hrReturn, hrKind, waitLeft,
                   time_waited, reconnect_attempts, is_running, connections,
                   connIdx, all_connected, wait_time, closedIter, sleepLeft,
                   mainStops, lastCheck, lastCall, lastCycle, cyclesSinceStop,
                   sleptAfterShutdown, inBackoffAtShutdown, leftAtShutdown,
                   lastWait, partialLeft, stoppedInConnect, hpc, healthStops,
                   last_update_time, mpc, joinLeft, instruments, added,
                   stock_data, lastQuote>>
    /\ UNCHANGED rlVars
    /\ UNCHANGED stVars
    /\ UNCHANGED calVars

\* "while should_continue:": the inner loop's test reads the local variable,
\* which nothing assigns inside the loop.
RestInner ==
    /\ pc = "inner"
    /\ pc' = IF should_continue THEN "fetch" ELSE "post_check"
    /\ UNCHANGED <<mode, nSymbols, shutdown, market, hrReturn, hrKind, waitLeft,
                   time_waited, reconnect_attempts, is_running, should_continue,
                   connections, connIdx, all_connected, wait_time, closedIter,
                   sleepLeft, mainStops, lastCheck, lastCall, lastCycle,
                   cyclesSinceStop, sleptSinceCheck, sleptAfterShutdown,
                   inBackoffAtShutdown, leftAtShutdown, lastWait, partialLeft,
                   stoppedInConnect, hpc, healthStops, last_update_time, mpc,
                   joinLeft, instruments, added, stock_data, lastQuote>>
    /\ UNCHANGED rlVars
    /\ UNCHANGED stVars
    /\ UNCHANGED calVars

\* InstrumentManager.instruments is a list (utils/instruments.py, __init__
\* and createInstrumentManager), which has no values().
InstrumentsHasValues == FALSE

\* prepare_stock_data evaluates self.instrumentManager.instruments.values().
PrepareStockDataRaises == ~InstrumentsHasValues

\* fetchData.  self.symbols is not empty here (connect() succeeded), so the
\* call reaches prepare_stock_data, whose AttributeError the outer
\* "except Exception" logs: fetchData returns having issued no request, not
\* called save_stock_data and not assigned last_update_time.
RestFetchData ==
    /\ pc = "fetch"
    /\ nSymbols > 0
    /\ PrepareStockDataRaises
    /\ lastCycle' = [requests |-> 0, flushes |-> 0, done |-> TRUE]
    /\ cyclesSinceStop' = IF is_running THEN 0 ELSE Bump(cyclesSinceStop)
    /\ time_waited' = 0
    /\ pc' = "wait_check"
    /\ UNCHANGED <<mode, nSymbols, shutdown, market, hrReturn, hrKind, waitLeft,
                   reconnect_attempts, is_running, should_continue, connections,
                   connIdx, all_connected, wait_time, closedIter, sleepLeft,
                   mainStops, lastCheck, lastCall, sleptSinceCheck,
                   sleptAfterShutdown, inBackoffAtShutdown, leftAtShutdown,
                   lastWait, partialLeft, stoppedInConnect, hpc, healthStops,
                   last_update_time, mpc, joinLeft, instruments, added,
                   stock_data, lastQuote>>
    /\ UNCHANGED rlVars
    /\ UNCHANGED stVars
    /\ UNCHANGED calVars

\* Where the inter-cycle wait goes after its test
\* "if self.shutdown_event.is_set() or not isMarketOpen(): break".
AfterWaitCheck(m) ==
    IF Raises(m) THEN "hr_enter" ELSE IF IsOpen(m) THEN "wait_sleep" ELSE "inner"

\* "while time_waited < POLLING_INTERVAL: if self.shutdown_event.is_set() or
\* not isMarketOpen(): break".  An exception of isMarketOpen() reaches the
\* "except Exception" of run(), which calls handleReconnect.
RestWaitCheck ==
    /\ pc = "wait_check"
    /\ IF time_waited >= POLLING_INTERVAL
       THEN /\ pc' = "inner"
            /\ time_waited' = 0
            /\ UNCHANGED <<sleptSinceCheck, lastCheck, lastCall, hrReturn>>
       ELSE /\ FlagTested
            /\ IF shutdown
               THEN /\ pc' = "inner"
                    /\ time_waited' = 0
                    /\ UNCHANGED <<lastCheck, lastCall, hrReturn>>
               ELSE /\ MarketChecked
                    /\ pc' = AfterWaitCheck(market)
                    /\ time_waited' = IF IsOpen(market) THEN time_waited ELSE 0
                    /\ hrReturn' = IF Raises(market) THEN "post_check" ELSE hrReturn
    /\ UNCHANGED <<mode, nSymbols, shutdown, market, hrKind, waitLeft,
                   reconnect_attempts, is_running, should_continue, connections,
                   connIdx, all_connected, wait_time, closedIter, sleepLeft,
                   mainStops, lastCycle, cyclesSinceStop, sleptAfterShutdown,
                   inBackoffAtShutdown, leftAtShutdown, lastWait, partialLeft,
                   stoppedInConnect, hpc, healthStops, last_update_time, mpc,
                   joinLeft, instruments, added, stock_data, lastQuote>>
    /\ UNCHANGED rlVars
    /\ UNCHANGED stVars
    /\ UNCHANGED calVars

\* "time.sleep(1); time_waited += 1"
RestWaitSleep ==
    /\ pc = "wait_sleep"
    /\ SleptOneSecond
    /\ time_waited' = time_waited + 1
    /\ pc' = "wait_check"
    /\ UNCHANGED <<mode, nSymbols, shutdown, market, hrReturn, hrKind, waitLeft,
                   reconnect_attempts, is_running, should_continue, connections,
                   connIdx, all_connected, wait_time, closedIter, sleepLeft,
                   mainStops, lastCheck, lastCall, lastCycle, cyclesSinceStop,
                   inBackoffAtShutdown, leftAtShutdown, lastWait, partialLeft,
                   stoppedInConnect, hpc, healthStops, last_update_time, mpc,
                   joinLeft, instruments, added, stock_data, lastQuote>>
    /\ UNCHANGED rlVars
    /\ UNCHANGED stVars
    /\ UNCHANGED calVars

(***************************************************************************)
(* The streaming engine (classes/TwelveDataWebSocket.py).                  *)
(***************************************************************************)
\* run(): "if not isMarketOpen():" at the top of the outer loop, outside
\* every try.
WsMarketGate ==
    /\ pc = "ws_market"
    /\ MarketChecked
    /\ pc' = IF Raises(market) THEN "raised"
             ELSE IF IsOpen(market) THEN "ws_connect" ELSE "ws_wait_time"
    /\ UNCHANGED <<mode, nSymbols, shutdown, market, hrReturn, hrKind, waitLeft,
                   time_waited, reconnect_attempts, is_running, should_continue,
                   connections, connIdx, all_connected, wait_time, closedIter,
                   sleepLeft, mainStops, lastCycle, cyclesSinceStop,
                   sleptSinceCheck, sleptAfterShutdown, inBackoffAtShutdown,
                   leftAtShutdown, lastWait, partialLeft, stoppedInConnect, hpc,
                   healthStops, last_update_time, mpc, joinLeft, instruments,
                   added, stock_data, lastQuote>>
    /\ UNCHANGED rlVars
    /\ UNCHANGED stVars
    /\ UNCHANGED calVars

\* run(): "wait_time = getTimeUntilMarketOpen()": a second getMarketState,
\* whose time_until_open is 0 inside the open window.
WsWaitTime ==
    /\ pc = "ws_wait_time"
    /\ ProviderQueried
    /\ IF Raises(market)
       THEN /\ pc' = "raised"
            /\ UNCHANGED wait_time
       ELSE /\ pc' = "ws_closed_check"
            /\ wait_time' \in IF QueriesProvider(market) THEN {0} ELSE 1..MaxWaitTime
    /\ closedIter' = 0
    /\ UNCHANGED <<mode, nSymbols, shutdown, market, hrReturn, hrKind, waitLeft,
                   time_waited, reconnect_attempts, is_running, should_continue,
                   connections, connIdx, all_connected, sleepLeft, mainStops,
                   lastCheck, lastCycle, cyclesSinceStop, sleptSinceCheck,
                   sleptAfterShutdown, inBackoffAtShutdown, leftAtShutdown,
                   lastWait, partialLeft, stoppedInConnect, hpc, healthStops,
                   last_update_time, mpc, joinLeft, instruments, added,
                   stock_data, lastQuote>>
    /\ UNCHANGED rlVars
    /\ UNCHANGED stVars
    /\ UNCHANGED calVars

\* run(): one iteration of "for _ in range(0, wait_time, 10): if
\* self.shutdown_event.is_set(): return", or the loop's end and "continue".
WsClosedCheck ==
    /\ pc = "ws_closed_check"
    /\ IF closedIter >= wait_time
       THEN /\ pc' = "outer"
            /\ wait_time' = 0
            /\ closedIter' = 0
            /\ UNCHANGED <<sleptSinceCheck, sleepLeft>>
       ELSE /\ FlagTested
            /\ pc' = IF shutdown THEN "done" ELSE "ws_closed_sleep"
            /\ sleepLeft' = IF shutdown THEN 0 ELSE Min(WAIT_CHUNK, wait_time)
            /\ wait_time' = IF shutdown THEN 0 ELSE wait_time
            /\ closedIter' = IF shutdown THEN 0 ELSE closedIter
    /\ UNCHANGED <<mode, nSymbols, shutdown, market, hrReturn, hrKind, waitLeft,
                   time_waited, reconnect_attempts, is_running, should_continue,
                   connections, connIdx, all_connected, mainStops, lastCheck,
                   lastCall, lastCycle, cyclesSinceStop, sleptAfterShutdown,
                   inBackoffAtShutdown, leftAtShutdown, lastWait, partialLeft,
                   stoppedInConnect, hpc, healthStops, last_update_time, mpc,
                   joinLeft, instruments, added, stock_data, lastQuote>>
    /\ UNCHANGED rlVars
    /\ UNCHANGED stVars
    /\ UNCHANGED calVars

\* run(): a second of "time.sleep(min(10, wait_time))".
WsClosedSleep ==
    /\ pc = "ws_closed_sleep"
    /\ SleptOneSecond
    /\ sleepLeft' = sleepLeft - 1
    /\ closedIter' = IF sleepLeft = 1 THEN closedIter + WAIT_CHUNK ELSE closedIter
    /\ pc' = IF sleepLeft = 1 THEN "ws_closed_check" ELSE "ws_closed_sleep"
    /\ UNCHANGED <<mode, nSymbols, shutdown, market, hrReturn, hrKind, waitLeft,
                   time_waited, reconnect_attempts, is_running, should_continue,
                   connections, connIdx, all_connected, wait_time, mainStops,
                   lastCheck, lastCall, lastCycle, cyclesSinceStop,
                   inBackoffAtShutdown, leftAtShutdown, lastWait, partialLeft,
                   stoppedInConnect, hpc, healthStops, last_update_time, mpc,
                   joinLeft, instruments, added, stock_data, lastQuote>>
    /\ UNCHANGED rlVars
    /\ UNCHANGED stVars
    /\ UNCHANGED calVars

\* TwelveDataWebSocket.connect up to its loop: isMarketOpen() (an exception
\* is caught by connect's own "except Exception"), getClient(), and
\* createConnections(), which appends the new connections to the list.
\* A False sends run() to handleReconnect and "continue".
WsConnect ==
    /\ pc = "ws_connect"
    /\ MarketChecked
    /\ IF IsOpen(market) /\ nSymbols > 0
       THEN /\ Len(connections) + NumConnections(nSymbols) <= MaxConnObjects
            /\ connections' = connections \o CreatedConnections(nSymbols)
            /\ connIdx' = 0
            /\ all_connected' = TRUE
            /\ pc' = "ws_connect_each"
            /\ UNCHANGED hrReturn
       ELSE /\ pc' = "hr_enter"
            /\ hrReturn' = "outer"
            /\ UNCHANGED <<connections, connIdx, all_connected>>
    /\ partialLeft' = 0
    /\ stoppedInConnect' = FALSE
    /\ UNCHANGED <<mode, nSymbols, shutdown, market, hrKind, waitLeft,
                   time_waited, reconnect_attempts, is_running, should_continue,
                   wait_time, closedIter, sleepLeft, mainStops, lastCycle,
                   cyclesSinceStop, sleptSinceCheck, sleptAfterShutdown,
                   inBackoffAtShutdown, leftAtShutdown, lastWait, hpc,
                   healthStops, last_update_time, mpc, joinLeft, instruments,
                   added, stock_data, lastQuote>>
    /\ UNCHANGED rlVars
    /\ UNCHANGED stVars
    /\ UNCHANGED calVars

\* connect(): "for connection in self.connections: if not
\* connection.connect(): all_connected = False".  WebSocketConnection.connect
\* sets is_connected to whether the provider's connection came up.
WsConnectEach ==
    /\ pc = "ws_connect_each"
    /\ IF connIdx < Len(connections)
       THEN /\ \E ok \in BOOLEAN :
                 /\ connections' = [connections EXCEPT ![connIdx + 1].is_connected = ok]
                 /\ all_connected' = (all_connected /\ ok)
            /\ connIdx' = connIdx + 1
            /\ pc' = "ws_connect_sleep"
       ELSE /\ pc' = "ws_connect_end"
            /\ UNCHANGED <<connections, all_connected, connIdx>>
    /\ UNCHANGED <<mode, nSymbols, shutdown, market, hrReturn, hrKind, waitLeft,
                   time_waited, reconnect_attempts, is_running, should_continue,
                   wait_time, closedIter, sleepLeft, mainStops, lastCheck,
                   lastCall, lastCycle, cyclesSinceStop, sleptSinceCheck,
                   sleptAfterShutdown, inBackoffAtShutdown, leftAtShutdown,
                   lastWait, partialLeft, stoppedInConnect, hpc, healthStops,
                   last_update_time, mpc, joinLeft, instruments, added,
                   stock_data, lastQuote>>
    /\ UNCHANGED rlVars
    /\ UNCHANGED stVars
    /\ UNCHANGED calVars

\* connect(): "time.sleep(1)  # Small delay between connections"
WsConnectSleep ==
    /\ pc = "ws_connect_sleep"
    /\ SleptOneSecond
    /\ pc' = "ws_connect_each"
    /\ UNCHANGED <<mode, nSymbols, shutdown, market, hrReturn, hrKind, waitLeft,
                   time_waited, reconnect_attempts, is_running, should_continue,
                   connections, connIdx, all_connected, wait_time, closedIter,
                   sleepLeft, mainStops, lastCheck, lastCall, lastCycle,
                   cyclesSinceStop, inBackoffAtShutdown, leftAtShutdown,
                   lastWait, partialLeft, stoppedInConnect, hpc, healthStops,
                   last_update_time, mpc, joinLeft, instruments, added,
                   stock_data, lastQuote>>
    /\ UNCHANGED rlVars
    /\ UNCHANGED stVars
    /\ UNCHANGED calVars

\* connect(): "if all_connected: self.is_running = True;
\* self.reconnect_attempts = 0; return True; else: return False".
WsConnectEnd ==
    /\ pc = "ws_connect_end"
    /\ IF all_connected
       THEN /\ is_running' = TRUE
            /\ reconnect_attempts' = 0
            /\ pc' = "ws_monitor"
            /\ UNCHANGED hrReturn
       ELSE /\ pc' = "hr_enter"
            /\ hrReturn' = "outer"
            /\ UNCHANGED <<is_running, reconnect_attempts>>
    /\ connIdx' = 0
    /\ all_connected' = TRUE
    /\ partialLeft' = IF all_connected THEN 0 ELSE NumConnected(connections)
    /\ UNCHANGED <<mode, nSymbols, shutdown, market, hrKind, waitLeft,
                   time_waited, should_continue, connections, wait_time,
                   closedIter, sleepLeft, mainStops, lastCheck, lastCall,
                   lastCycle, cyclesSinceStop, sleptSinceCheck,
                   sleptAfterShutdown, inBackoffAtShutdown, leftAtShutdown,
                   lastWait, stoppedInConnect, hpc, healthStops,
                   last_update_time, mpc, joinLeft, instruments, added,
                   stock_data, lastQuote>>
    /\ UNCHANGED rlVars
    /\ UNCHANGED stVars
    /\ UNCHANGED calVars

\* run(): "while self.is_running and isMarketOpen() and not
\* self.shutdown_event.is_set():", evaluated left to right; an exception of
\* isMarketOpen() reaches "except Exception", which calls handleReconnect.
WsMonitor ==
    /\ pc = "ws_monitor"
    /\ IF ~is_running
       THEN /\ pc' = "ws_unmark"
            /\ UNCHANGED <<lastCheck, lastCall, hrReturn, sleptSinceCheck>>
       ELSE /\ MarketChecked
            /\ pc' = IF Raises(market) THEN "hr_enter"
                     ELSE IF IsOpen(market) /\ ~shutdown THEN "ws_monitor_sleep"
                     ELSE "ws_unmark"
            /\ hrReturn' = IF Raises(market) THEN "post_check" ELSE hrReturn
            /\ sleptSinceCheck' = IF IsOpen(market) THEN 0 ELSE sleptSinceCheck
    /\ UNCHANGED <<mode, nSymbols, shutdown, market, hrKind, waitLeft,
                   time_waited, reconnect_attempts, is_running, should_continue,
                   connections, connIdx, all_connected, wait_time, closedIter,
                   sleepLeft, mainStops, lastCycle, cyclesSinceStop,
                   sleptAfterShutdown, inBackoffAtShutdown, leftAtShutdown,
                   lastWait, partialLeft, stoppedInConnect, hpc, healthStops,
                   last_update_time, mpc, joinLeft, instruments, added,
                   stock_data, lastQuote>>
    /\ UNCHANGED rlVars
    /\ UNCHANGED stVars
    /\ UNCHANGED calVars

\* run(): "time.sleep(1)" of the monitoring loop.
WsMonitorSleep ==
    /\ pc = "ws_monitor_sleep"
    /\ SleptOneSecond
    /\ pc' = "ws_monitor"
    /\ UNCHANGED <<mode, nSymbols, shutdown, market, hrReturn, hrKind, waitLeft,
                   time_waited, reconnect_attempts, is_running, should_continue,
                   connections, connIdx, all_connected, wait_time, closedIter,
                   sleepLeft, mainStops, lastCheck, lastCall, lastCycle,
                   cyclesSinceStop, inBackoffAtShutdown, leftAtShutdown,
                   lastWait, partialLeft, stoppedInConnect, hpc, healthStops,
                   last_update_time, mpc, joinLeft, instruments, added,
                   stock_data, lastQuote>>
    /\ UNCHANGED rlVars
    /\ UNCHANGED stVars
    /\ UNCHANGED calVars

\* run(): "for connection in self.connections: connection.is_connected = False"
WsUnmark ==
    /\ pc = "ws_unmark"
    /\ connections' = AllDisconnected(connections)
    /\ pc' = "post_check"
    /\ UNCHANGED <<mode, nSymbols, shutdown, market, hrReturn, hrKind, waitLeft,
                   time_waited, reconnect_attempts, is_running, should_continue,
                   connIdx, all_connected, wait_time, closedIter, sleepLeft,
                   mainStops, lastCheck, lastCall, lastCycle, cyclesSinceStop,
                   sleptSinceCheck, sleptAfterShutdown, inBackoffAtShutdown,
                   leftAtShutdown, lastWait, partialLeft, stoppedInConnect, hpc,
                   healthStops, last_update_time, mpc, joinLeft, instruments,
                   added, stock_data, lastQuote>>
    /\ UNCHANGED rlVars
    /\ UNCHANGED stVars
    /\ UNCHANGED calVars

\* handleReconnect past MAX_RECONNECT_ATTEMPTS: a second of "time.sleep(60)",
\* and after the last "self.reconnect_attempts = 0; return".
WsCooldown ==
    /\ pc = "ws_cooldown"
    /\ SleptOneSecond
    /\ sleepLeft' = sleepLeft - 1
    /\ reconnect_attempts' = IF sleepLeft = 1
                             THEN AfterCooldown(reconnect_attempts)
                             ELSE reconnect_attempts
    /\ hrKind' = IF sleepLeft = 1 THEN "backoff" ELSE hrKind
    /\ pc' = IF sleepLeft = 1 THEN hrReturn ELSE "ws_cooldown"
    /\ lastWait' = IF sleepLeft = 1 THEN "cooldown" ELSE lastWait
    /\ UNCHANGED <<mode, nSymbols, shutdown, market, hrReturn, waitLeft,
                   time_waited, is_running, should_continue, connections,
                   connIdx, all_connected, wait_time, closedIter, mainStops,
                   lastCheck, lastCall, lastCycle, cyclesSinceStop,
                   inBackoffAtShutdown, leftAtShutdown, partialLeft,
                   stoppedInConnect, hpc, healthStops, last_update_time, mpc,
                   joinLeft, instruments, added, stock_data, lastQuote>>
    /\ UNCHANGED rlVars
    /\ UNCHANGED stVars
    /\ UNCHANGED calVars

(***************************************************************************)
(* save_stock_data (db/stocks.py) and the "stocks" collection.  The        *)
(* collection is MongoDB's: one document per _id; UpdateOne with           *)
(* upsert=True inserts the document when the _id is new; $set assigns a    *)
(* field; $addToSet creates the array when the field is missing, adds the  *)
(* value when the array does not hold it yet, and fails the whole update   *)
(* when the field holds something that is not an array (null included).    *)
(***************************************************************************)
\* Python's None, as the value of a key of a record.
NoValue == "None"

\* The values a record's keys take.
Ids == {"101_20240102"}
Names == {"Acme", "Acme Ltd"}
Dates == {"2024-01-02T00:00", "2024-01-02T09:15"}
Quotes == {"q1"}

\* The name and the creation time a record carries: the ones of the first
\* write of the day, or both different.
Headers == {<<"Acme", "2024-01-02T00:00">>, <<"Acme Ltd", "2024-01-02T09:15">>}

\* The dictionaries of the list save_stock_data is given: the keys of the
\* records prepare_stock_data builds.
Records ==
    {r \in [_id : Ids \cup {NoValue}, stock_name : Names, createdAt : Dates,
            nse_data : Quotes \cup {NoValue}, bse_data : Quotes \cup {NoValue}] :
        <<r.stock_name, r.createdAt>> \in Headers}

\* The lists of at most MaxBatch records.
Batches == UNION {[1..n -> Records] : n \in 0..MaxBatch}

\* A stored field: null, or an array.
Null == [isArray |-> FALSE, items |-> <<>>]

Array(items) == [isArray |-> TRUE, items |-> items]

\* No document with that _id.
NoDoc ==
    [exists |-> FALSE, stock_name |-> NoValue, createdAt |-> NoValue,
     nse_data |-> Null, bse_data |-> Null]

\* The filter that asks for the _id only.
IsValidById(r) == r._id # NoValue

\* "if stock.get("_id") and (stock.get("nse_data") or stock.get("bse_data"))"
IsValid(r) == r._id # NoValue /\ (r.nse_data # NoValue \/ r.bse_data # NoValue)

\* "valid_stocks = [stock for stock in stock_data if ...]"
ValidStocks(b) == SelectSeq(b, IsValid)

\* $push in the place of $addToSet.
Push(present, field, v) ==
    IF ~present THEN Array(<<v>>) ELSE Array(Append(field.items, v))

\* $addToSet of one value into the array a document holds (none: created).
AddToSet(present, field, v) ==
    IF ~present THEN Array(<<v>>)
    ELSE IF \E k \in 1..Len(field.items) : field.items[k] = v THEN field
    ELSE Array(Append(field.items, v))

\* The update document built for one record fails on the stored document:
\* its $addToSet names a field that holds null.
UpdateFails(d, r) ==
    /\ d.exists
    /\ \/ r.nse_data # NoValue /\ ~d.nse_data.isArray
       \/ r.bse_data # NoValue /\ ~d.bse_data.isArray

\* UpdateOne({"_id": _id}, {"$set": set_fields, "$addToSet": addtoset_fields},
\* upsert=True) on the document d: every key but _id, nse_data and bse_data
\* goes to $set, as do nse_data and bse_data when they hold no value.
UpdateOne(d, r) ==
    [exists |-> TRUE,
     stock_name |-> r.stock_name,
     createdAt |-> r.createdAt,
     nse_data |-> IF r.nse_data = NoValue THEN Null
                  ELSE AddToSet(d.exists, d.nse_data, r.nse_data),
     bse_data |-> IF r.bse_data = NoValue THEN Null
                  ELSE AddToSet(d.exists, d.bse_data, r.bse_data)]

\* bulk_write(bulk_operations, ordered=False), the operations taken in the
\* order ops lists them: an update that fails leaves its document as it is
\* and the others are still applied.
RECURSIVE BulkWrite(_, _)
BulkWrite(st, ops) ==
    IF ops = <<>> THEN [store |-> st, errors |-> 0]
    ELSE LET r == Head(ops)
             d == st[r._id]
         IN IF UpdateFails(d, r)
            THEN LET rest == BulkWrite(st, Tail(ops))
                 IN [store |-> rest.store, errors |-> rest.errors + 1]
            ELSE BulkWrite([st EXCEPT ![r._id] = UpdateOne(d, r)], Tail(ops))

\* The orders an unordered bulk write may take the operations in.
Orders(ops) ==
    {[k \in 1..Len(ops) |-> ops[p[k]]] : p \in Permutations(1..Len(ops))}

\* What a call of save_stock_data may leave and return: True with nothing
\* written when no record is valid; False with nothing written when the
\* collection cannot be reached; otherwise the bulk write, False when an
\* update failed (BulkWriteError, caught).
SaveOutcomes(st, b, up) ==
    LET valid == ValidStocks(b)
    IN IF valid = <<>> THEN {[store |-> st, ret |-> TRUE]}
       ELSE IF ~up THEN {[store |-> st, ret |-> FALSE]}
       ELSE {[store |-> BulkWrite(st, o).store, ret |-> BulkWrite(st, o).errors = 0] :
                o \in Orders(valid)}

\* The _ids of the list are all different.
DistinctIds(b) == \A i, j \in 1..Len(b) : b[i]._id = b[j]._id => i = j

\* What the history keeps of a call.
Summary(b, ret, calls) ==
    [ret |-> ret, calls |-> calls, valid |-> Len(ValidStocks(b)),
     dropped |-> Len(b) - Len(ValidStocks(b)), distinct |-> DistinctIds(ValidStocks(b))]

\* One call: save_stock_data(b).
Save(b) ==
    /\ \E up \in BOOLEAN : \E o \in SaveOutcomes(store, b, up) :
          /\ store' = o.store
          /\ afterFirst' = o.store
          /\ lastSave' = Summary(b, o.ret, 1)
    /\ UNCHANGED <<rlVars, engVars, calVars, lastEvent>>

\* Two calls in a row with the same list, the collection reachable.
SaveTwice(b) ==
    /\ \E o1 \in SaveOutcomes(store, b, TRUE) : \E o2 \in SaveOutcomes(o1.store, b, TRUE) :
          /\ afterFirst' = o1.store
          /\ store' = o2.store
          /\ lastSave' = Summary(b, o2.ret, 2)
    /\ UNCHANGED <<rlVars, engVars, calVars, lastEvent>>

\* The collection before the first call.
InitStore ==
    /\ store = [i \in Ids |-> NoDoc]
    /\ afterFirst = [i \in Ids |-> NoDoc]
    /\ lastSave = [ret |-> TRUE, calls |-> 0, valid |-> 0, dropped |-> 0, distinct |-> TRUE]
    /\ lastEvent = [event |-> "none", price |-> NoValue, sink_calls |-> 0]

\* The events the provider's socket hands to onEvent: event.get("event", "")
\* and event.get("price"), None when the key is missing.
EventTypes == {"price", "heartbeat", "subscribe-status", "error", ""}

Events == [event : EventTypes, price : {NoValue} \cup Quotes]

\* An onEvent that takes an "error" event for the end of the connections.
AfterEventErrorDisconnects(cs, e) ==
    IF e.event = "error" THEN AllDisconnected(cs) ELSE cs

\* The connections as onEvent leaves them: the handler assigns
\* last_message_time and logs; no branch of it assigns is_connected or symbols.
AfterEvent(cs, e) == cs

\* WebSocketConnection.onEvent(event): last_message_time is assigned and the
\* event is logged by its type; the branch of a price event with a price
\* only logs too (the insert into the database is commented out), so the
\* handler calls neither save_stock_data nor the collection.
OnEvent(e) ==
    /\ mode = "WS"
    /\ \E i \in 1..Len(connections) : connections[i].is_connected
    /\ lastEvent' = [event |-> e.event, price |-> e.price, sink_calls |-> 0]
    /\ connections' = AfterEvent(connections, e)
    /\ UNCHANGED <<mode, nSymbols, shutdown, market, pc, hrReturn, hrKind,
                   waitLeft, time_waited, reconnect_attempts, is_running,
                   should_continue, connIdx, all_connected, wait_time,
                   closedIter, sleepLeft, mainStops, lastCheck, lastCall,
                   lastCycle, cyclesSinceStop, sleptSinceCheck,
                   sleptAfterShutdown, inBackoffAtShutdown, leftAtShutdown,
                   lastWait, partialLeft, stoppedInConnect, hpc, healthStops,
                   last_update_time, mpc, joinLeft, instruments, added,
                   stock_data, lastQuote>>
    /\ UNCHANGED <<rlVars, calVars, store, lastSave, afterFirst>>

NextStore == \E b \in Batches : Save(b) \/ SaveTwice(b)

\* ---------------------------------------------------------------------------
\* The market calendar (utils/marketHours.py, constants/markets.py).
\* A time of day is its second of the day; "now" is the market's local
\* date and time: the day of the month, the length of that month, the weekday
\* (Monday is 0) and the time of day.
\* ---------------------------------------------------------------------------

\* The instants examined lie within CalMargin seconds of each time the
\* configuration names, plus the first and the last second of the day.
CalMargin == 1

\* datetime.time(h, m, s) as a second of the day.
HMS(h, m, s) == (h * 60 + m) * 60 + s

\* int((later - earlier).total_seconds()) for two local days d apart.
SECONDS_PER_DAY == HMS(24, 0, 0)

\* MARKET_CONFIGS["India"].
OPEN_TIME == HMS(9, 15, 0)

CLOSE_TIME == HMS(18, 30, 0)

PRE_MARKET_START == HMS(9, 0, 0)

POST_MARKET_END == HMS(19, 0, 0)

CLOSED_DAYS == {5, 6}

\* The lengths a month of the calendar can have.
MonthLengths == {28, 29, 30, 31}

Instants ==
    {0, SECONDS_PER_DAY - 1} \cup
    {b + k : b \in {PRE_MARKET_START, OPEN_TIME, CLOSE_TIME, POST_MARKET_END},
             k \in (0 - CalMargin)..CalMargin}

Nows ==
    UNION {[dim : {m}, day : 1..m, weekday : 0..6, tod : Instants] : m \in MonthLengths}

\* What check_market_status() leads getMarketState to: "closed" is an answer
\* with success and an exchange whose is_market_open is false, "open" any
\* other answer of the provider, "error" the error dictionary returned when
\* the client or the request raises, "none" the None returned when no entry
\* of the answer bears the exchange's name (the test of line 128 then raises
\* TypeError, caught at line 141).
ExtAnswers == {"open", "closed", "error", "none"}

\* next_open.weekday() once next_open has been moved to day d of now's month.
WeekdayOf(now, d) == (now.weekday + (d - now.day)) % 7

\* next_open.replace(day=d): ValueError when the month has no day d.
RECURSIVE SkipClosedDays(_, _)
SkipClosedDays(now, d) ==
    IF d > now.dim THEN [raised |-> TRUE, day |-> 0]
    ELSE IF WeekdayOf(now, d) \in CLOSED_DAYS THEN SkipClosedDays(now, d + 1)
    ELSE [raised |-> FALSE, day |-> d]

PastClose(now) == now.tod > CLOSE_TIME

\* _getNextMarketOpen(now, config): the day of now's month on which the
\* market opens next, at OPEN_TIME, or the ValueError of replace().
GetNextMarketOpen(now) ==
    SkipClosedDays(now, IF PastClose(now) THEN now.day + 1 ELSE now.day)

\* _getSecondsUntilNextOpen for a next open on day d.
SecondsUntil(now, d) == (d - now.day) * SECONDS_PER_DAY + OPEN_TIME - now.tod

CalRaised ==
    [raised |-> TRUE, state |-> "none", is_open |-> FALSE, has_next |-> FALSE,
     next_day |-> 0, time_until_open |-> 0]

\* The dictionary of a branch that asks _getNextMarketOpen.
WithNextOpen(now, st) ==
    LET n == GetNextMarketOpen(now)
    IN  IF n.raised THEN CalRaised
        ELSE [raised |-> FALSE, state |-> st, is_open |-> FALSE, has_next |-> TRUE,
              next_day |-> n.day, time_until_open |-> SecondsUntil(now, n.day)]

\* The trading-hours test with the closing bound left out.
InTradingHoursNoClose(t) == OPEN_TIME <= t

InTradingHours(t) == OPEN_TIME <= t /\ t <= CLOSE_TIME

\* The same with a failed query counted as a closed market.
ApiVerifiedOpenStrict(ext) == ext = "open"

ApiVerifiedOpen(ext) == ext # "closed"

\* getMarketState(market) at local time now with provider answer ext.
GetMarketState(now, ext) ==
    IF now.weekday \in CLOSED_DAYS THEN WithNextOpen(now, "WEEKEND")
    ELSE IF InTradingHours(now.tod) THEN
        [raised |-> FALSE,
         state |-> IF ApiVerifiedOpen(ext) THEN "OPEN" ELSE "HOLIDAY",
         is_open |-> ApiVerifiedOpen(ext), has_next |-> FALSE,
         next_day |-> 0, time_until_open |-> 0]
    ELSE IF PRE_MARKET_START <= now.tod /\ now.tod < OPEN_TIME THEN
        [raised |-> FALSE, state |-> "PRE_MARKET", is_open |-> FALSE, has_next |-> TRUE,
         next_day |-> now.day, time_until_open |-> OPEN_TIME - now.tod]
    ELSE IF CLOSE_TIME < now.tod /\ now.tod <= POST_MARKET_END THEN
        WithNextOpen(now, "POST_MARKET")
    ELSE WithNextOpen(now, "CLOSED")

\* isMarketOpen(market) for a getMarketState that returned r.
IsMarketOpen(r) == r.state = "OPEN"

Earliest(S) == CHOOSE t \in S : \A u \in S : t <= u

\* The local clock after the step to the next instant examined.
Later(now) ==
    LET later == {t \in Instants : t > now.tod}
    IN  IF later # {} THEN {[now EXCEPT !.tod = Earliest(later)]}
        ELSE IF now.day < now.dim
             THEN {[now EXCEPT !.day = @ + 1, !.weekday = (@ + 1) % 7,
                               !.tod = Earliest(Instants)]}
             ELSE {[dim |-> m, day |-> 1, weekday |-> (now.weekday + 1) % 7,
                    tod |-> Earliest(Instants)] : m \in MonthLengths}

\* Time passes to the next instant and getMarketState is called there.
CallLater ==
    /\ \E n \in Later(calNow) :
        /\ calNow' = n
        /\ calResult' = GetMarketState(n, calExt)
    /\ UNCHANGED <<rlVars, engVars, stVars, calExt>>

\* The provider starts to answer differently and getMarketState is called again.
CallOtherAnswer ==
    /\ \E e \in ExtAnswers \ {calExt} :
        /\ calExt' = e
        /\ calResult' = GetMarketState(calNow, e)
    /\ UNCHANGED <<rlVars, engVars, stVars, calNow>>

InitCalendar ==
    /\ calNow = [dim |-> 31, day |-> 1, weekday |-> 0, tod |-> 0]
    /\ calExt = "open"
    /\ calResult = GetMarketState(calNow, calExt)

NextCalendar == CallLater \/ CallOtherAnswer

(***************************************************************************)
(* TwelveDataManager.processQuoteData(data, stock_data) and the batch it   *)
(* is given.                                                               *)
(***************************************************************************)
CompanyIds == {101, 102}

\* A record of the batch as prepare_stock_data writes it, before any quote:
\* "nse_data": None, "bse_data": None.
FreshRecord(c) == [company_id |-> c, nse_data |-> NoValue, bse_data |-> NoValue]

\* The batches of a cycle before its first quote, keyed by company_id.
CycleBatches == {[c \in S |-> FreshRecord(c)] : S \in SUBSET CompanyIds}

\* The quotes processQuoteData is called with: data.get("symbol"),
\* data.get("exchange") and data["timestamp"], None when the key is missing.
QuoteInputs ==
    [symbol : {NoValue, "RELIANCE", "TCS", "XYZ"},
     exchange : {NoValue, "NSE", "BSE", "NYSE"},
     timestamp : {NoValue, "1700000000"}]

\* Before the first call.
NoQuoteYet ==
    [processed |-> FALSE,
     data |-> [symbol |-> NoValue, exchange |-> NoValue, timestamp |-> NoValue],
     outcome |-> "none", raised |-> FALSE]

\* The rate limiter as constructed by RateLimiter.__init__.
InitLimiter ==
    /\ clock = 0
    /\ minute_calls = <<>>
    /\ lock = NoThread
    /\ rlpc = [t \in Threads |-> "idle"]
    /\ wake = [t \in Threads |-> 0]
    /\ admitted = <<>>
    /\ lastAdmit = [at |-> 0, slept |-> FALSE]

\* The engine as constructed by __init__, for one data source and symbol list.
InitEngine(m, n) ==
    /\ mode = m
    /\ nSymbols = n
    /\ shutdown = FALSE
    /\ market \in {"open", "holiday", "closed", "raises"}
    /\ pc = "outer"
    /\ hrReturn = "outer"
    /\ hrKind = "backoff"
    /\ waitLeft = 0
    /\ time_waited = 0
    /\ reconnect_attempts = 0
    /\ is_running = FALSE
    /\ should_continue = FALSE
    /\ connections = <<>>
    /\ connIdx = 0
    /\ all_connected = TRUE
    /\ wait_time = 0
    /\ closedIter = 0
    /\ sleepLeft = 0
    /\ mainStops = 0
    /\ lastCheck = "none"
    /\ lastCall = [kind |-> "none", admitted |-> TRUE]
    /\ lastCycle = [requests |-> 0, flushes |-> 0, done |-> FALSE]
    /\ cyclesSinceStop = 0
    /\ sleptSinceCheck = 0
    /\ sleptAfterShutdown = 0
    /\ inBackoffAtShutdown = FALSE
    /\ leftAtShutdown = 0
    /\ lastWait = "none"
    /\ partialLeft = 0
    /\ stoppedInConnect = FALSE
    /\ hpc \in {"off", "loop"}
    /\ healthStops = 0
    /\ last_update_time = "None"
    /\ mpc \in {"off", "wait"}
    /\ joinLeft = 0
    /\ instruments = <<>>
    /\ added = <<>>
    /\ stock_data \in CycleBatches
    /\ lastQuote = NoQuoteYet

InitRL == InitLimiter /\ InitEngine("REST", 0) /\ market = "open" /\ InitStore /\ InitCalendar /\ hpc = "off" /\ mpc = "off" /\ stock_data = <<>>

NextRL ==
    \/ \E t \in Threads : AcquireEnter(t)
    \/ \E t \in Threads : AcquireWake(t)
    \/ Tick

SpecRL == InitRL /\ [][NextRL]_vars

\* save_stock_data on its own, from the empty collection.
InitSave == InitLimiter /\ InitEngine("REST", 0) /\ market = "open" /\ InitStore /\ InitCalendar /\ hpc = "off" /\ mpc = "off" /\ stock_data = <<>>

SpecStore == InitSave /\ [][NextStore]_vars

\* The calendar alone: getMarketState called at any local date and time.
InitCal ==
    /\ InitLimiter /\ InitEngine("REST", 0) /\ market = "open" /\ InitStore
    /\ hpc = "off" /\ mpc = "off" /\ stock_data = <<>>
    /\ calNow \in {n \in Nows : n.tod = 0}
    /\ calExt \in ExtAnswers
    /\ calResult = GetMarketState(calNow, calExt)

SpecCal == InitCal /\ [][NextCalendar]_vars

\* The longest symbol list the sharding is examined for.
MaxListLen == 81

\* TwelveDataWebSocket.__init__ for an instrument manager with n symbols.
Construct(n) ==
    /\ mode = "WS"
    /\ pc = "outer"
    /\ nSymbols' = n
    /\ connections' = <<>>
    /\ UNCHANGED <<mode, shutdown, market, pc, hrReturn, hrKind, waitLeft,
                   time_waited, reconnect_attempts, is_running, should_continue,
                   connIdx, all_connected, wait_time, closedIter, sleepLeft,
                   mainStops, lastCheck, lastCall, lastCycle, cyclesSinceStop,
                   sleptSinceCheck, sleptAfterShutdown, inBackoffAtShutdown,
                   leftAtShutdown, lastWait, partialLeft, stoppedInConnect, hpc,
                   healthStops, last_update_time, mpc, joinLeft, instruments,
                   added, stock_data, lastQuote>>
    /\ UNCHANGED rlVars
    /\ UNCHANGED stVars
    /\ UNCHANGED calVars

\* createConnections() on an engine that holds no connection yet: False
\* without symbols, else the connections of the chunks appended to the list.
CreateConnections ==
    /\ mode = "WS"
    /\ pc = "outer"
    /\ connections = <<>>
    /\ nSymbols > 0
    /\ connections' = connections \o CreatedConnections(nSymbols)
    /\ UNCHANGED <<mode, nSymbols, shutdown, market, pc, hrReturn, hrKind,
                   waitLeft, time_waited, reconnect_attempts, is_running,
                   should_continue, connIdx, all_connected, wait_time,
                   closedIter, sleepLeft, mainStops, lastCheck, lastCall,
                   lastCycle, cyclesSinceStop, sleptSinceCheck,
                   sleptAfterShutdown, inBackoffAtShutdown, leftAtShutdown,
                   lastWait, partialLeft, stoppedInConnect, hpc, healthStops,
                   last_update_time, mpc, joinLeft, instruments, added,
                   stock_data, lastQuote>>
    /\ UNCHANGED rlVars
    /\ UNCHANGED stVars
    /\ UNCHANGED calVars

\* WebSocketConnection.connect() of the i-th connection of the list:
\* is_connected becomes whether the provider's socket came up.
ConnectShard(i) ==
    /\ mode = "WS"
    /\ pc = "outer"
    /\ i \in 1..Len(connections)
    /\ \E ok \in BOOLEAN : connections' = [connections EXCEPT ![i].is_connected = ok]
    /\ UNCHANGED <<mode, nSymbols, shutdown, market, pc, hrReturn, hrKind,
                   waitLeft, time_waited, reconnect_attempts, is_running,
                   should_continue, connIdx, all_connected, wait_time,
                   closedIter, sleepLeft, mainStops, lastCheck, lastCall,
                   lastCycle, cyclesSinceStop, sleptSinceCheck,
                   sleptAfterShutdown, inBackoffAtShutdown, leftAtShutdown,
                   lastWait, partialLeft, stoppedInConnect, hpc, healthStops,
                   last_update_time, mpc, joinLeft, instruments, added,
                   stock_data, lastQuote>>
    /\ UNCHANGED rlVars
    /\ UNCHANGED stVars
    /\ UNCHANGED calVars

\* The streaming engine's connections alone: an engine of any list length,
\* its createConnections, the connections' connect() and their events.
InitShards ==
    /\ InitLimiter /\ InitStore /\ InitCalendar
    /\ \E n \in 0..MaxListLen : InitEngine("WS", n)
    /\ market = "open"
    /\ hpc = "off" /\ mpc = "off" /\ stock_data = <<>>

NextShards ==
    \/ \E n \in 0..MaxListLen : Construct(n)
    \/ CreateConnections
    \/ \E i \in 1..MAX_WEBSOCKET_CONNECTIONS : ConnectShard(i)
    \/ \E e \in Events : OnEvent(e)

SpecShards == InitShards /\ [][NextShards]_vars

\* The symbol lists the engines are constructed with: empty, one symbol,
\* and more than one connection's worth.
SymbolCounts == {0, 1, MaxSymbols}

\* main() starts run() on the data thread; the lines that would start
\* healthCheck on a thread of its own are commented out.
Init ==
    /\ InitLimiter
    /\ \E m \in {"REST", "WS"} : \E n \in SymbolCounts : InitEngine(m, n)
    /\ InitStore
    /\ InitCalendar
    /\ hpc = "off" /\ mpc = "off" /\ stock_data = <<>>

\* The steps of the worker that executes run().
RunStep ==
    \/ RunOuter
    \/ PostCheck
    \/ HrEnter
    \/ HrCheck
    \/ HrSleep
    \/ RestConnect
    \/ RestEvalContinue
    \/ RestInner
    \/ RestFetchData
    \/ RestWaitCheck
    \/ RestWaitSleep
    \/ WsMarketGate
    \/ WsWaitTime
    \/ WsClosedCheck
    \/ WsClosedSleep
    \/ WsConnect
    \/ WsConnectEach
    \/ WsConnectSleep
    \/ WsConnectEnd
    \/ WsMonitor
    \/ WsMonitorSleep
    \/ WsUnmark
    \/ WsCooldown

Next ==
    \/ Signal
    \/ MarketChange
    \/ MainStop
    \/ RunStep

Spec == Init /\ [][Next]_vars

\* The steps of the worker that executes healthCheck.
HealthStep == HealthLoop \/ HealthSleep \/ HealthTick

\* The program with the health monitor started next to run().
InitHealth ==
    /\ InitLimiter
    /\ \E m \in {"REST", "WS"} : \E n \in SymbolCounts : InitEngine(m, n)
    /\ InitStore
    /\ InitCalendar
    /\ hpc = "loop" /\ mpc = "off" /\ stock_data = <<>>

NextHealth == Next \/ HealthStep

SpecHealth == InitHealth /\ [][NextHealth]_vars

\* The worker thread is scheduled as long as it can take a step.
FairSpec == Spec /\ WF_vars(RunStep)

(***************************************************************************)
(* C1: for a RateLimiter with quota Q and any number of threads calling    *)
(* acquire() concurrently, the number of admissions that fall inside the   *)
(* trailing 60-second window (clock - 60, clock] is at most Q, in every    *)
(* reachable state, that is for the window ending at every instant.        *)
(***************************************************************************)
(***************************************************************************)
(* main() from its wait loop on (main.py), on the main thread, next to the *)
(* data thread.  signalHandler also starts a thread that sleeps 3 seconds  *)
(* and calls sys.exit(0); in a thread that is not the main one this ends   *)
(* that thread only, so it has no step here.                               *)
(***************************************************************************)
\* "data_thread.join(timeout=3)"
JOIN_TIMEOUT == 3

\* data_thread.is_alive(): run() has neither returned nor raised.
DataAlive == pc \notin {"done", "raised"}

\* The process lasts until main() returns: every other thread is a daemon.
ProcessAlive == mpc # "exited"

\* A join without its timeout.
JoinReturnsUntimed(alive, left) == ~alive

\* join(timeout=3) returns when the thread has ended or the time is up.
JoinReturns(alive, left) == ~alive \/ left = 0

\* "while not shutdown_event.is_set(): time.sleep(0.1)": the loop ends.
MainWait ==
    /\ mpc = "wait"
    /\ shutdown
    /\ mpc' = "join"
    /\ joinLeft' = JOIN_TIMEOUT
    /\ UNCHANGED <<mode, nSymbols, shutdown, market, pc, hrReturn, hrKind,
                   waitLeft, time_waited, reconnect_attempts, is_running,
                   should_continue, connections, connIdx, all_connected,
                   wait_time, closedIter, sleepLeft, mainStops, lastCheck,
                   lastCall, lastCycle, cyclesSinceStop, sleptSinceCheck,
                   sleptAfterShutdown, inBackoffAtShutdown, leftAtShutdown,
                   lastWait, partialLeft, stoppedInConnect, hpc, healthStops,
                   last_update_time, instruments, added, stock_data, lastQuote>>
    /\ UNCHANGED rlVars
    /\ UNCHANGED stVars
    /\ UNCHANGED calVars

\* A second of "data_thread.join(timeout=3)", or its return and
\* "if data_thread.is_alive():".
MainJoin ==
    /\ mpc = "join"
    /\ IF JoinReturns(DataAlive, joinLeft)
       THEN /\ mpc' = IF DataAlive THEN "force_stop" ELSE "cleanup"
            /\ joinLeft' = 0
       ELSE /\ joinLeft' = IF joinLeft > 0 THEN joinLeft - 1 ELSE 0
            /\ UNCHANGED mpc
    /\ UNCHANGED <<mode, nSymbols, shutdown, market, pc, hrReturn, hrKind,
                   waitLeft, time_waited, reconnect_attempts, is_running,
                   should_continue, connections, connIdx, all_connected,
                   wait_time, closedIter, sleepLeft, mainStops, lastCheck,
                   lastCall, lastCycle, cyclesSinceStop, sleptSinceCheck,
                   sleptAfterShutdown, inBackoffAtShutdown, leftAtShutdown,
                   lastWait, partialLeft, stoppedInConnect, hpc, healthStops,
                   last_update_time, instruments, added, stock_data, lastQuote>>
    /\ UNCHANGED rlVars
    /\ UNCHANGED stVars
    /\ UNCHANGED calVars

\* "data_manager.stop()" when the data thread is still alive after the join,
\* and "data_manager.stop()" as clean-up, after which main() returns.
MainStopAndGo ==
    /\ mpc \in {"force_stop", "cleanup"}
    /\ mpc' = IF mpc = "force_stop" THEN "cleanup" ELSE "exited"
    /\ mainStops' = mainStops + 1
    /\ is_running' = StopRunning(is_running)
    /\ cyclesSinceStop' = 0
    /\ connections' = StopConnections(mode, connections)
    /\ stoppedInConnect' = (stoppedInConnect \/ InConnect)
    /\ UNCHANGED <<mode, nSymbols, shutdown, market, pc, hrReturn, hrKind,
                   waitLeft, time_waited, reconnect_attempts, should_continue,
                   connIdx, all_connected, wait_time, closedIter, sleepLeft,
                   lastCheck, lastCall, lastCycle, sleptSinceCheck,
                   sleptAfterShutdown, inBackoffAtShutdown, leftAtShutdown,
                   lastWait, partialLeft, hpc, healthStops, last_update_time,
                   joinLeft, instruments, added, stock_data, lastQuote>>
    /\ UNCHANGED rlVars
    /\ UNCHANGED stVars
    /\ UNCHANGED calVars

\* The steps of the main thread.
MainStep == MainWait \/ MainJoin \/ MainStopAndGo

\* The program with main() followed from its wait loop to its return, for
\* a list of one symbol.
InitMain ==
    /\ InitLimiter
    /\ \E m \in {"REST", "WS"} : InitEngine(m, 1)
    /\ InitStore
    /\ InitCalendar
    /\ hpc = "off"
    /\ mpc = "wait" /\ stock_data = <<>>

NextMain ==
    \/ ProcessAlive /\ Signal
    \/ ProcessAlive /\ MarketChange
    \/ ProcessAlive /\ RunStep
    \/ MainStep

SpecMain == InitMain /\ [][NextMain]_vars

\* The main thread is scheduled as long as it has a step to take; nothing is
\* assumed of the data thread.
FairMain == SpecMain /\ WF_vars(MainStep)

(***************************************************************************)
(* The instrument registry (utils/instruments.py).  An Instrument is its   *)
(* symbol and exchange; its display name plays no part in the symbol list. *)
(***************************************************************************)
\* The longest list addInstrument is followed to.
MaxInstruments == 4

SymbolNames == {"RELIANCE", "TCS"}

Exchanges == {"NSE", "BSE"}

\* An entry of a stockMaster document's crossListings: its "symbol" ("" when
\* the key is missing) and its "exchange" ("absent" when the key is missing).
Listings == [symbol : SymbolNames \cup {""}, exchange : Exchanges \cup {"absent"}]

\* The crossListings arrays, and the documents fetchInstrumentsFromMongo returns.
ListingSeqs ==
    {<<>>} \cup {<<l>> : l \in Listings} \cup {<<l, k>> : l, k \in Listings}

DocLists ==
    {<<>>} \cup {<<d>> : d \in ListingSeqs} \cup {<<d, e>> : d, e \in ListingSeqs}

\* Instrument.getSymbolWithExchange: f"{self.symbol}:{self.exchange}"
GetSymbolWithExchange(i) == i.symbol \o ":" \o i.exchange

\* InstrumentManager.getSymbolsList
GetSymbolsList(is) == [k \in 1..Len(is) |-> GetSymbolWithExchange(is[k])]

\* A registry keyed by symbol: a listing replaces the one of the same symbol.
AddedKeyedBySymbol(is, i) ==
    IF \E k \in 1..Len(is) : is[k].symbol = i.symbol
    THEN [k \in 1..Len(is) |-> IF is[k].symbol = i.symbol THEN i ELSE is[k]]
    ELSE Append(is, i)

\* "self.instruments.append(instrument)"
Added(is, i) == Append(is, i)

\* instrument_data.get("exchange", "NSE")
ExchangeOf(l) == IF l.exchange = "absent" THEN "NSE" ELSE l.exchange

\* createInstrumentsForBothExchanges: an Instrument for every entry of
\* crossListings that has a symbol, in the array's order.
RECURSIVE CreateInstrumentsForBothExchanges(_)
CreateInstrumentsForBothExchanges(ls) ==
    IF ls = <<>> THEN <<>>
    ELSE (IF Head(ls).symbol # ""
          THEN <<[symbol |-> Head(ls).symbol, exchange |-> ExchangeOf(Head(ls))]>>
          ELSE <<>>) \o CreateInstrumentsForBothExchanges(Tail(ls))

\* The instruments of a list of documents, in order.
RECURSIVE InstrumentsOfDocs(_)
InstrumentsOfDocs(docs) ==
    IF docs = <<>> THEN <<>>
    ELSE CreateInstrumentsForBothExchanges(Head(docs)) \o InstrumentsOfDocs(Tail(docs))

\* The list after appending each instrument of a sequence in turn.
RECURSIVE AddedAll(_, _)
AddedAll(is, new) ==
    IF new = <<>> THEN is ELSE AddedAll(Added(is, Head(new)), Tail(new))

\* What the history records of a sequence of instruments.
Pairs(new) == [k \in 1..Len(new) |-> <<new[k].symbol, new[k].exchange>>]

\* InstrumentManager.addInstrument(symbol, exchange)
AddInstrument(s, x) ==
    /\ Len(instruments) < MaxInstruments
    /\ instruments' = Added(instruments, [symbol |-> s, exchange |-> x])
    /\ added' = Append(added, <<s, x>>)
    /\ UNCHANGED <<mode, nSymbols, shutdown, market, pc, hrReturn, hrKind,
                   waitLeft, time_waited, reconnect_attempts, is_running,
                   should_continue, connections, connIdx, all_connected,
                   wait_time, closedIter, sleepLeft, mainStops, lastCheck,
                   lastCall, lastCycle, cyclesSinceStop, sleptSinceCheck,
                   sleptAfterShutdown, inBackoffAtShutdown, leftAtShutdown,
                   lastWait, partialLeft, stoppedInConnect, hpc, healthStops,
                   last_update_time, mpc, joinLeft, stock_data, lastQuote>>
    /\ UNCHANGED rlVars
    /\ UNCHANGED stVars
    /\ UNCHANGED calVars

\* createInstrumentManager(): a new manager, and for every document fetched
\* every instrument of createInstrumentsForBothExchanges appended to it.
CreateInstrumentManager(docs) ==
    /\ instruments' = AddedAll(<<>>, InstrumentsOfDocs(docs))
    /\ added' = Pairs(InstrumentsOfDocs(docs))
    /\ UNCHANGED <<mode, nSymbols, shutdown, market, pc, hrReturn, hrKind,
                   waitLeft, time_waited, reconnect_attempts, is_running,
                   should_continue, connections, connIdx, all_connected,
                   wait_time, closedIter, sleepLeft, mainStops, lastCheck,
                   lastCall, lastCycle, cyclesSinceStop, sleptSinceCheck,
                   sleptAfterShutdown, inBackoffAtShutdown, leftAtShutdown,
                   lastWait, partialLeft, stoppedInConnect, hpc, healthStops,
                   last_update_time, mpc, joinLeft, stock_data, lastQuote>>
    /\ UNCHANGED rlVars
    /\ UNCHANGED stVars
    /\ UNCHANGED calVars

\* The registry alone, from an empty manager.
InitInstruments ==
    /\ InitLimiter /\ InitEngine("REST", 0) /\ market = "open" /\ InitStore
    /\ InitCalendar
    /\ hpc = "off" /\ mpc = "off" /\ stock_data = <<>>

NextInstruments ==
    \/ \E s \in SymbolNames : \E x \in Exchanges : AddInstrument(s, x)
    \/ \E docs \in DocLists : CreateInstrumentManager(docs)

SpecInstruments == InitInstruments /\ [][NextInstruments]_vars

\* The methods class InstrumentManager defines.
ManagerMethods ==
    {"addInstrument", "getSymbolsList", "getInstrumentBySymbol", "clear", "__len__"}

\* How far processQuoteData gets: "if not symbol: return None", then
\* "self.instrumentManager.get_instrument(symbol)", an AttributeError on an
\* InstrumentManager, which has no such method; the statements after it are
\* not reached.
QuoteOutcome(data) ==
    IF data.symbol = NoValue THEN "no_symbol"
    ELSE IF "get_instrument" \notin ManagerMethods THEN "attribute_error"
    ELSE "resolved"

\* The batch as processQuoteData leaves it: unchanged by "return None", and
\* unchanged by the exception, which "except Exception" catches and logs.
ProcessedBatch(data, batch) == batch

\* The registry holds an instrument of that symbol.
Registered(s) == \E k \in 1..Len(instruments) : instruments[k].symbol = s

\* processQuoteData(data, stock_data): nothing leaves the function but None.
ProcessQuoteData(data) ==
    /\ stock_data' = ProcessedBatch(data, stock_data)
    /\ lastQuote' = [processed |-> TRUE, data |-> data,
                     outcome |-> QuoteOutcome(data), raised |-> FALSE]
    /\ UNCHANGED <<mode, nSymbols, shutdown, market, pc, hrReturn, hrKind,
                   waitLeft, time_waited, reconnect_attempts, is_running,
                   should_continue, connections, connIdx, all_connected,
                   wait_time, closedIter, sleepLeft, mainStops, lastCheck,
                   lastCall, lastCycle, cyclesSinceStop, sleptSinceCheck,
                   sleptAfterShutdown, inBackoffAtShutdown, leftAtShutdown,
                   lastWait, partialLeft, stoppedInConnect, hpc, healthStops,
                   last_update_time, mpc, joinLeft, instruments, added>>
    /\ UNCHANGED rlVars
    /\ UNCHANGED stVars
    /\ UNCHANGED calVars

\* processQuoteData alone: a registry that grows by addInstrument, a batch
\* of a cycle, and any sequence of quotes.
InitQuote ==
    /\ InitLimiter
    /\ InitEngine("REST", 0)
    /\ market = "open"
    /\ InitStore
    /\ InitCalendar
    /\ hpc = "off"
    /\ mpc = "off"

NextQuote ==
    \/ \E s \in SymbolNames : \E x \in Exchanges : AddInstrument(s, x)
    \/ \E data \in QuoteInputs : ProcessQuoteData(data)

SpecQuote == InitQuote /\ [][NextQuote]_vars

C1_WindowWithinQuota == Len(admitted) <= Quota

\* A call that had to sleep has been admitted and the window is full again.
C1_Witness ==
    /\ Len(admitted) = Quota
    /\ lastAdmit.slept
    /\ lastAdmit.at = clock
    /\ lastAdmit.at >= Window

(***************************************************************************)
(* C2: every outbound call to the market-data provider is preceded by a    *)
(* RateLimiter.acquire() admission for that call (the quote requests of a  *)
(* poll cycle, the market-status queries of isMarketOpen() and             *)
(* getMarketState(), the API-key validation requests).                     *)
(***************************************************************************)
C2_EveryCallAdmitted == lastCall.admitted

(***************************************************************************)
(* C3: in polling mode, if the shutdown event is set at any point after    *)
(* the engine has entered its polling loop, run() eventually returns: the  *)
(* worker leaves the inner polling loop and then the outer loop.  Leaving  *)
(* run() by an exception counts as leaving.                                *)
(***************************************************************************)
PollingLoop == {"inner", "fetch", "wait_check", "wait_sleep"}

C3_ShutdownEndsPolling ==
    (mode = "REST" /\ shutdown /\ pc \in PollingLoop) ~> (pc \in {"done", "raised"})

(***************************************************************************)
(* C4: in a poll cycle over a symbol list where the quote request for one  *)
(* symbol throws, fetchData still issues the request for every other       *)
(* symbol and calls the persistence sink exactly once at the end of the    *)
(* cycle.  Stated for every completed cycle that no shutdown interrupts,   *)
(* whichever requests throw: one request per symbol, one call of the sink. *)
(***************************************************************************)
C4_CycleRequestsAllAndFlushesOnce ==
    (lastCycle.done /\ ~shutdown) =>
        (lastCycle.requests = nSymbols /\ lastCycle.flushes = 1)

(***************************************************************************)
(* C6: the engine starts a poll cycle (polling: a fetchData call) or opens *)
(* streaming connections (streaming: the loop of connect()) only while the *)
(* market is open: at that step the calendar answers open, or the worker's *)
(* latest isMarketOpen() did.                                              *)
(***************************************************************************)
StartsCycle == pc = "inner" /\ pc' = "fetch"

OpensStreams == pc = "ws_connect" /\ pc' = "ws_connect_each"

C6_StartsOnlyWhileOpen ==
    [][(StartsCycle \/ OpensStreams) => (IsOpen(market) \/ lastCheck' = "open")]_vars

(***************************************************************************)
(* C7: after stop() sets is_running to false on a polling engine, at most  *)
(* the poll cycle already in progress completes: no new fetchData cycle is *)
(* started afterwards unless connect() succeeds again.  One cycle is       *)
(* allowed for the stop() that arrives between the loop's test and the     *)
(* call.                                                                   *)
(***************************************************************************)
C7_NoCycleAfterStop ==
    (mode = "REST" /\ ~is_running) => cyclesSinceStop <= 1

(***************************************************************************)
(* C8: run() returns only if the shutdown event is set, in both engines:   *)
(* when the market closes mid-session the engine leaves the inner loop but *)
(* the outer loop keeps running and run() does not return.                 *)
(***************************************************************************)
C8_ReturnsOnlyOnShutdown == pc = "done" => shutdown

(***************************************************************************)
(* C9: setting the shutdown event while a worker is inside a reconnect     *)
(* backoff wait of duration D makes handleReconnect return within one      *)
(* second (not after D), and the run loop then exits, in both engines: the *)
(* worker sleeps at most one more second and goes nowhere but out of       *)
(* handleReconnect and out of run().                                       *)
(***************************************************************************)
C9_BackoffInterrupted ==
    inBackoffAtShutdown =>
        /\ sleptAfterShutdown <= 1
        /\ pc \in {"hr_check", "hr_sleep", "outer", "post_check", "done", "raised"}

\* run() has returned after a shutdown that found the backoff wait with
\* several seconds left.
C9_Witness == inBackoffAtShutdown /\ leftAtShutdown >= INITIAL_RECONNECT_DELAY /\ pc = "done"

(***************************************************************************)
(* C10: every sleep or wait point of every worker observes the shared      *)
(* shutdown flag at least once per second: once shutdown is set, no worker *)
(* sleeps more than one second without testing the flag.                   *)
(***************************************************************************)
C10_FlagObservedEverySecond == sleptSinceCheck <= 1


(***************************************************************************)
(* C11: for the n-th consecutive reconnect attempt, 1 <= n <=              *)
(* MAX_RECONNECT_ATTEMPTS, handleReconnect waits                           *)
(* min(INITIAL_RECONNECT_DELAY * 2^(n-1), MAX_RECONNECT_DELAY) seconds, so *)
(* successive delays are non-decreasing and never exceed                   *)
(* MAX_RECONNECT_DELAY: the backoff loop is entered with exactly that many *)
(* one-second iterations.                                                  *)
(***************************************************************************)
ExpectedDelay(n) ==
    IF INITIAL_RECONNECT_DELAY * 2^(n - 1) < MAX_RECONNECT_DELAY
    THEN INITIAL_RECONNECT_DELAY * 2^(n - 1)
    ELSE MAX_RECONNECT_DELAY

EntersBackoff == pc = "hr_enter" /\ pc' = "hr_check" /\ hrKind' = "backoff"

C11_BackoffDelay ==
    [][EntersBackoff =>
          LET n == reconnect_attempts'
          IN /\ n \in 1..MAX_RECONNECT_ATTEMPTS
             /\ waitLeft' = ExpectedDelay(n)
             /\ waitLeft' <= MAX_RECONNECT_DELAY
             /\ n > 1 => ExpectedDelay(n - 1) <= waitLeft']_vars

\* The fifth attempt in a row waits the capped delay.
C11_Witness ==
    /\ pc = "hr_check"
    /\ hrKind = "backoff"
    /\ reconnect_attempts = MAX_RECONNECT_ATTEMPTS
    /\ waitLeft = MAX_RECONNECT_DELAY

(***************************************************************************)
(* C12: when the incremented reconnect_attempts exceeds                    *)
(* MAX_RECONNECT_ATTEMPTS, handleReconnect waits the fixed cooldown and    *)
(* then resets reconnect_attempts to zero, so the next failure is treated  *)
(* as attempt 1 again.  The cooldown is entered exactly past the maximum   *)
(* and with COOLDOWN seconds to wait; unless a shutdown cuts it short it   *)
(* ends with all of them waited and the counter at zero; and the           *)
(* handleReconnect that follows a full cooldown counts attempt 1.          *)
(***************************************************************************)
InCooldown == pc \in {"hr_check", "hr_sleep", "ws_cooldown"} /\ hrKind = "cooldown"

\* A call of handleReconnect that finds the shutdown event not set.
CountsAttempt == pc = "hr_enter" /\ pc' # "hr_enter" /\ ~shutdown

EntersCooldown == CountsAttempt /\ hrKind' = "cooldown"

LeavesCooldown == InCooldown /\ pc' \notin {"hr_check", "hr_sleep", "ws_cooldown"}

C12_CooldownResets ==
    [][/\ CountsAttempt =>
              (EntersCooldown <=> reconnect_attempts' > MAX_RECONNECT_ATTEMPTS)
       /\ EntersCooldown => waitLeft' + sleepLeft' = COOLDOWN
       /\ (LeavesCooldown /\ ~shutdown) =>
              /\ reconnect_attempts' = 0
              /\ waitLeft' = 0 /\ sleepLeft' = 0
              /\ lastWait' = "cooldown"
       /\ (CountsAttempt /\ lastWait = "cooldown") =>
              reconnect_attempts' = 1]_vars

\* The backoff wait of attempt 1 that follows a cooldown waited in full.
C12_Witness ==
    /\ pc = "hr_check"
    /\ hrKind = "backoff"
    /\ lastWait = "cooldown"
    /\ reconnect_attempts = 1
    /\ waitLeft = INITIAL_RECONNECT_DELAY

(***************************************************************************)
(* C13: the engine never gives up permanently: if connect() keeps failing  *)
(* and the shutdown event is never set, connect() is attempted again       *)
(* infinitely often (after each backoff or cooldown wait), and run() does  *)
(* not return because of connection failures.  Every handleReconnect       *)
(* called for a failed connect() is followed by another connect(), unless  *)
(* the shutdown event is set or the market is no longer open (the          *)
(* streaming engine does not connect while it is not); handleReconnect     *)
(* never ends run(), and the outer loop's test ends it only on shutdown.   *)
(***************************************************************************)
Reconnecting ==
    /\ pc \in {"hr_enter", "hr_check", "hr_sleep", "ws_cooldown"}
    /\ hrReturn = "outer"

C14_SecondUpsertChangesNothing ==
    (lastSave.calls = 2 /\ lastSave.distinct) => store = afterFirst

\* A payload with a quote has been upserted twice and the array holds it once.
C14_Witness ==
    /\ lastSave.calls = 2
    /\ lastSave.valid = 1
    /\ lastSave.ret
    /\ \E i \in Ids : store[i].exists /\ store[i].nse_data = Array(<<"q1">>)

(***************************************************************************)
(* C15: save_stock_data writes the non-exchange fields (stock_name,        *)
(* company_id, createdAt) only when the document is inserted: an upsert    *)
(* for an _id that already exists never overwrites the stored stock_name   *)
(* or createdAt, even when the incoming record carries different values.   *)
(***************************************************************************)
C15_HeaderSetOnInsertOnly ==
    [][\A i \in Ids :
          store[i].exists =>
              /\ store'[i].stock_name = store[i].stock_name
              /\ store'[i].createdAt = store[i].createdAt]_vars

(***************************************************************************)
(* C16: save_stock_data drops every record that has no _id or has neither  *)
(* nse_data nor bse_data, never raises because of such a record, and still *)
(* upserts every valid record of the same batch: whatever the collection   *)
(* holds, a call leaves and returns what the call without those records    *)
(* would, and a call that returns True for a list with a valid record has  *)
(* stored its document.                                                    *)
(***************************************************************************)
IsDropped(r) == r._id = NoValue \/ (r.nse_data = NoValue /\ r.bse_data = NoValue)

WithoutDropped(b) == SelectSeq(b, LAMBDA r : ~IsDropped(r))

C16_BadRecordsDropped ==
    /\ \A b \in Batches : \A up \in BOOLEAN :
          SaveOutcomes(store, b, up) = SaveOutcomes(store, WithoutDropped(b), up)
    /\ (lastSave.ret /\ lastSave.valid > 0) => \E i \in Ids : store[i].exists

\* A call given a record to drop and a valid record has stored the valid one.
C16_Witness ==
    /\ lastSave.calls = 1
    /\ lastSave.dropped > 0
    /\ lastSave.valid > 0
    /\ lastSave.ret
    /\ \E i \in Ids : store[i].exists

\* C18: on a weekday that is not a closed day, with no holiday answer from
\* the provider, isMarketOpen returns true at exactly the open time and at
\* exactly the close time, and returns false one second before the open time
\* and one second after the close time.
C18_OpenAtBoundaries ==
    (calNow.weekday \notin CLOSED_DAYS /\ calExt # "closed") =>
        /\ (calNow.tod \in {OPEN_TIME, CLOSE_TIME} =>
                ~calResult.raised /\ IsMarketOpen(calResult))
        /\ (calNow.tod \in {OPEN_TIME - 1, CLOSE_TIME + 1} =>
                ~calResult.raised /\ ~IsMarketOpen(calResult))

\* C19: getMarketState answers OPEN, and isMarketOpen true, only on a weekday
\* that is not a closed day at a local time from the open time to the close
\* time, whatever the provider answers.
C19_OpenOnlyInLocalHours ==
    (~calResult.raised /\ (calResult.state = "OPEN" \/ calResult.is_open
                           \/ IsMarketOpen(calResult))) =>
        /\ calNow.weekday \notin CLOSED_DAYS
        /\ OPEN_TIME <= calNow.tod
        /\ calNow.tod <= CLOSE_TIME

\* The provider answers "open" outside the local hours and the state is not OPEN.
C19_Witness ==
    /\ calExt = "open"
    /\ calNow.weekday \notin CLOSED_DAYS
    /\ calNow.tod = CLOSE_TIME + 1
    /\ ~calResult.raised
    /\ calResult.state = "POST_MARKET"
    /\ ~IsMarketOpen(calResult)

\* The day, counted on from now's month, of the earliest open time that is
\* not in the past and falls on a weekday that is not a closed day.
ExpectedNextOpenDay(now) ==
    Earliest({d \in now.day..(now.day + 7) :
                /\ WeekdayOf(now, d) \notin CLOSED_DAYS
                /\ (d > now.day \/ now.tod <= OPEN_TIME)})

\* C20: whenever getMarketState is called outside the trading hours of a
\* weekday, on any day of any month, the call does not fail, and the next open
\* it reports is the earliest open time not in the past on a weekday that is
\* not a closed day, with time_until_open the seconds from now to it.
C20_NextOpenIsEarliest ==
    (calNow.weekday \in CLOSED_DAYS \/ calNow.tod < OPEN_TIME \/ calNow.tod > CLOSE_TIME) =>
        /\ ~calResult.raised
        /\ calResult.has_next
        /\ calResult.next_day = ExpectedNextOpenDay(calNow)
        /\ calResult.time_until_open = SecondsUntil(calNow, ExpectedNextOpenDay(calNow))
        /\ calResult.time_until_open >= 0

\* C21: when the provider's market-status query fails (an error answer, an
\* exception, or no entry for the exchange) at a local time within the trading
\* hours of a weekday, getMarketState does not fail and returns OPEN.
C21_FailedQueryFallsBackToLocal ==
    (/\ calExt \in {"error", "none"}
     /\ calNow.weekday \notin CLOSED_DAYS
     /\ OPEN_TIME <= calNow.tod
     /\ calNow.tod <= CLOSE_TIME) =>
        /\ ~calResult.raised
        /\ calResult.state = "OPEN"
        /\ calResult.is_open
        /\ calResult.time_until_open = 0

C21_Witness ==
    /\ calExt = "none"
    /\ calNow.weekday \notin CLOSED_DAYS
    /\ calNow.tod = CLOSE_TIME
    /\ calResult.state = "OPEN"

\* The step on which TwelveDataWebSocket.connect returns from its loop.
ConnectReturns == pc = "ws_connect_end" /\ pc' # "ws_connect_end"

\* C22: the streaming connect() returns true, with is_running true and
\* reconnect_attempts 0, only if every shard's connection was established;
\* when a shard has failed it returns false and leaves is_running and
\* reconnect_attempts as they were.
C22_ConnectAllOrNothing ==
    [][/\ (ConnectReturns /\ pc' = "ws_monitor") =>
            /\ is_running' /\ reconnect_attempts' = 0
            /\ Len(connections) >= NumConnections(nSymbols)
            /\ \A i \in 1..Len(connections) : connections[i].is_connected
       /\ (ConnectReturns /\ pc' = "hr_enter") =>
            /\ is_running' = is_running
            /\ reconnect_attempts' = reconnect_attempts
       /\ (ConnectReturns /\ \E i \in 1..Len(connections) : ~connections[i].is_connected) =>
            pc' = "hr_enter"
      ]_vars

\* C23: when a streaming connect() has returned false with some shards
\* connected, those connections are still in the list and connected when the
\* next connect() starts.
C23_ConnectedShardsKept ==
    [][(pc = "ws_connect" /\ pc' # "ws_connect" /\ partialLeft > 0) =>
            NumConnected(connections) >= partialLeft]_vars

\* The connections of a list that symbol number s is assigned to.
ShardsOf(cs, s) == {i \in 1..Len(cs) : cs[i].lo <= s /\ s <= cs[i].hi}

\* C24: for every length of the symbol list, the connections createConnections
\* creates hold every symbol exactly once: the shards are disjoint and cover
\* the list, and each connection holds one non-empty shard.
C24_EverySymbolInOneShard ==
    connections # <<>> =>
        /\ \A s \in 1..nSymbols : Cardinality(ShardsOf(connections, s)) = 1
        /\ \A i \in 1..Len(connections) :
              /\ connections[i].id = i
              /\ 1 <= connections[i].lo
              /\ connections[i].lo <= connections[i].hi
              /\ connections[i].hi <= nSymbols

\* C25: for every price-update event a streaming connection receives, one
\* record is handed to the database by the handler, at once.
C25_PriceEventForwarded ==
    [][(lastEvent' # lastEvent /\ lastEvent'.event = "price" /\ lastEvent'.price # NoValue) =>
            /\ lastEvent'.sink_calls = 1
            /\ lastSave' # lastSave]_vars

\* A stop() called from outside the worker: main()'s clean-up.
StopCalled == mainStops' # mainStops

\* The engine as a stop() leaves it.
Stopped == ~is_running /\ (mode = "WS" => connections = <<>>)

\* C26: stop() is idempotent in both engines: every stop() leaves is_running
\* false and, in the streaming engine, no connection in the list, and a stop()
\* of an engine already in that state changes nothing of the engine.
C26_StopIdempotent ==
    [][StopCalled =>
          /\ Stopped'
          /\ Stopped => UNCHANGED <<is_running, connections, reconnect_attempts,
                                    pc, should_continue>>]_vars

\* Both stop() calls of main() have been made on a streaming engine that was
\* running when the first one came.
C26_Witness ==
    /\ mainStops = 2
    /\ mode = "WS"
    /\ Stopped
    /\ pc = "ws_unmark"

\* C27: when a stop() from another thread has run while the worker was inside
\* the streaming connect(), then once connect() has returned too is_running is
\* false and no connection is left connected.
C27_StopDuringConnectWins ==
    [][(ConnectReturns /\ stoppedInConnect) =>
            /\ ~is_running'
            /\ NumConnected(connections') = 0]_vars

\* A step of the health monitor.
HealthActs == hpc' # hpc

\* C28: the connections list, the connections' is_connected, is_running and
\* reconnect_attempts are changed by the worker executing run() only: the
\* health monitor reads them and no step of it changes them.
C28_OnlyRunMutatesEngine ==
    [][HealthActs => UNCHANGED <<connections, is_running, reconnect_attempts>>]_vars

\* A tick of the health monitor that finds the shutdown flag clear.
HealthTicks == hpc = "tick" /\ hpc' # "tick" /\ ~shutdown

\* C29: a tick of the health monitor without shutdown calls stop() once and
\* ends the monitor's loop when the market is not open and is_running is true,
\* and calls no stop() when the market is open; after its loop has ended the
\* monitor does nothing more.
C29_TickStopsOnceWhenClosed ==
    [][/\ (HealthTicks /\ ~IsOpen(market) /\ is_running) =>
            /\ healthStops' = healthStops + 1
            /\ ~is_running'
            /\ hpc' = "done"
       /\ (HealthTicks /\ IsOpen(market)) => healthStops' = healthStops
       /\ hpc = "done" => (hpc' = "done" /\ healthStops' = healthStops)
       /\ healthStops' <= 1
      ]_vars

\* C30: the polling engine's last_update_time is assigned only by a cycle
\* whose batch was handed to save_stock_data and stored.
C30_UpdateTimeOnlyOnPersist ==
    [][last_update_time' # last_update_time =>
            /\ pc = "fetch"
            /\ lastCycle'.flushes > 0]_vars

\* C39: whenever getMarketState returns with is_open false (WEEKEND, HOLIDAY,
\* PRE_MARKET, POST_MARKET, CLOSED), its time_until_open is positive.
C39_ClosedMeansPositiveWait ==
    (~calResult.raised /\ ~calResult.is_open) => calResult.time_until_open > 0

\* The worker is inside one of handleReconnect's waits: the backoff loop, or
\* the sleep past MAX_RECONNECT_ATTEMPTS.
InReconnectWait == pc \in {"hr_check", "hr_sleep", "ws_cooldown"}

\* C36: while the streaming engine is in a wait of handleReconnect (the
\* backoff delay or the cooldown past the maximum of attempts), every
\* connection has been disconnected and the connections list is empty.
C36_ReconnectWaitsWithNoConnections ==
    (mode = "WS" /\ InReconnectWait) => connections = <<>>

\* The symbols (positions of self.symbols) connection c subscribes to.
SymbolsOf(c) == c.lo..c.hi

\* No two entries of the list are for the same shard (connection_id).
OnePerShard(cs) == \A i, j \in 1..Len(cs) : cs[i].id = cs[j].id => i = j

\* No symbol is subscribed to by two entries of the list.
NoSharedSymbol(cs) ==
    \A i, j \in 1..Len(cs) : SymbolsOf(cs[i]) \cap SymbolsOf(cs[j]) # {} => i = j

\* C38: in streaming mode, once handleReconnect's cooldown past the maximum
\* of attempts has returned, the connections list still holds at most one
\* connection per shard, no symbol belongs to two of its connections, and it
\* has no more than MAX_WEBSOCKET_CONNECTIONS entries.
C38_ConnectionsListHasNoDuplicates ==
    (mode = "WS" /\ lastWait = "cooldown") =>
        /\ OnePerShard(connections)
        /\ NoSharedSymbol(connections)
        /\ Len(connections) <= MAX_WEBSOCKET_CONNECTIONS

\* An inbound message has been handled by onEvent.
EventHandled == lastEvent' # lastEvent

\* C37: handling an inbound stream message leaves the connections (their
\* is_connected and symbols), the symbol list, is_running and
\* reconnect_attempts as they were.
C37_EventChangesNoEngineState ==
    [][EventHandled => UNCHANGED <<connections, nSymbols, is_running,
                                   reconnect_attempts>>]_vars

\* An "error" message has been handled by a list with a connected connection.
C37_Witness == lastEvent.event = "error" /\ NumConnected(connections) > 0

\* C34: a thread sleeping inside acquire() because the quota is exhausted
\* does not hold the RateLimiter's lock.
C34_SleeperHoldsNoLock ==
    \A t \in Threads : rlpc[t] = "sleeping" => lock # t

\* A thread enters acquire(): it takes the free lock and either records its
\* call or goes to sleep.
AcquireEnters == lock = NoThread /\ (rlpc' # rlpc \/ minute_calls' # minute_calls)

\* Thread t returns from the time.sleep of acquire().
Wakes(t) == rlpc[t] = "sleeping" /\ rlpc'[t] = "idle"

\* The calls recorded in the trailing 60 seconds.
Recent == Trim(minute_calls, clock)

\* C35: acquire() records the call at once, without sleeping, when fewer than
\* Quota calls are recorded in the trailing 60 seconds; otherwise it records
\* nothing and sleeps until the oldest recorded call is 60 seconds old, and
\* the call is recorded when that sleep ends, not before.  With Quota calls
\* at t = 0 the next one sleeps until t = 60.
C35_AdmitsAtOnceOrWhenOldestExpires ==
    [][/\ (AcquireEnters /\ Len(Recent) < Quota) =>
              /\ rlpc' = rlpc
              /\ minute_calls' = Append(Recent, clock)
              /\ lastAdmit' = [at |-> clock, slept |-> FALSE]
       /\ (AcquireEnters /\ Len(Recent) >= Quota) =>
              /\ minute_calls' = Recent
              /\ \E t \in Threads :
                    /\ rlpc[t] = "idle" /\ rlpc'[t] = "sleeping"
                    /\ wake'[t] = Head(Recent) + Window
       /\ \A t \in Threads : Wakes(t) =>
              /\ clock >= wake[t]
              /\ minute_calls' = Append(Recent, clock)
              /\ lastAdmit' = [at |-> clock, slept |-> TRUE]]_vars

\* Quota calls were recorded at t = 0 and the next one, which had to sleep,
\* has been recorded at t = 60.
C35_Witness ==
    /\ lastAdmit = [at |-> Window, slept |-> TRUE]
    /\ minute_calls = <<Window>>
    /\ Len(admitted) = 1

\* C33: once the shutdown event is set, main() leaves its wait loop, waits
\* for the data thread no longer than the join's 3 seconds, calls stop() on
\* the engine and returns, whatever the data thread does.
C33_MainTerminatesAfterSignal ==
    /\ [](joinLeft \in 0..JOIN_TIMEOUT)
    /\ shutdown ~> (mpc = "exited" /\ mainStops >= 1 /\ Stopped)

\* main() has returned after both of its stop() calls while the data thread
\* was still inside run().
C33_Witness == mpc = "exited" /\ DataAlive /\ mainStops = 2

RegisteredQuoteProcessed(x) ==
    /\ lastQuote.processed
    /\ Registered(lastQuote.data.symbol)
    /\ lastQuote.data.exchange = x
    /\ lastQuote.data.timestamp # NoValue
    /\ DOMAIN stock_data = CompanyIds

\* C40: after processQuoteData on a quote whose symbol is that of a
\* registered instrument, the batch has nse_data set for a company when the
\* quote's exchange is NSE and bse_data when it is BSE; and no call raises.
C40_QuoteSetsItsExchangeField ==
    /\ ~lastQuote.raised
    /\ RegisteredQuoteProcessed("NSE") =>
           \E c \in DOMAIN stock_data : stock_data[c].nse_data # NoValue
    /\ RegisteredQuoteProcessed("BSE") =>
           \E c \in DOMAIN stock_data : stock_data[c].bse_data # NoValue

=============================================================================
